---- MODULE Spec2Model ----
(***************************************************************************)
(* Model of the transcript pipeline of stock-news-transcriber:             *)
(*   - the deduplication engine (safe_dedup.py, dedup_marker_processor.py, *)
(*     text_deduplication.py),                                             *)
(*   - the entity resolver (data_managers.py, context_aware_resolver.py),  *)
(*   - the chunk merger (core/utils.py merge_transcriptions).              *)
(* Python strings are sequences of one-character strings, so that strip,   *)
(* split, find, lower and difflib's ratio are computed as the code does.   *)
(***************************************************************************)
EXTENDS Integers, Sequences, FiniteSets, TLC

VARIABLES
    comp,               \* which component this behaviour exercises
    text,               \* dedup: the input text
    max_removal_percent,\* dedup: the ceiling f, in percent
    similarity_threshold,\* dedup: boundary similarity threshold, in percent
    dd,                 \* dedup: result of the last operation
    fuzzy_corpus,       \* resolver: StockContextManager.fuzzy_corpus (alias -> ticker)
    process,            \* resolver: whether thefuzz's process was imported
    memory,             \* resolver: SmartMarketResolver.memory (alias -> ticker)
    cache_file,         \* resolver: the persisted alias cache file
    added,              \* resolver: the entries resolve has persisted, with their score
    rs,                 \* resolver: the last resolve call and its outcome
    cx,                 \* resolver: the last resolve_with_context call and its result
    transcripts,        \* merger: the chunk transcripts
    chunk_index,        \* merger: loop index of merge_transcriptions
    full_text,          \* merger: accumulated text
    mlog,               \* merger: what each loop iteration decided
    mpc,                \* merger: position in merge_transcriptions
    futures,            \* job: the chunk transcription tasks submitted to the executor
    results,            \* job: main's dict chunk index -> text, in insertion order
    final_transcripts,  \* job: the list handed to merge_transcriptions
    merge_calls,        \* job: how often merge_transcriptions was invoked
    jpc,                \* job: position of the main thread
    store_file,         \* stores: the persisted file (alias cache or market cache)
    loaded,             \* stores: the instance's in-memory dict
    savers,             \* stores: the threads inside save_cache
    written,            \* stores: the save_cache calls completed, in order
    now,                \* stores: the clock, in seconds
    mlast,              \* stores: the last call on the market cache and its result
    chunks,             \* llm: the text chunks of process_large_text_robust
    processed_parts,    \* llm: the parts collected so far
    rate_limiter,       \* llm: the RateLimiter's request_count and max_requests
    lpos,               \* llm: position in the loops, and the returned text
    llog,               \* llm: per finished chunk, the budget it met and the calls made
    max_retries,        \* llm: config.MAX_RETRIES as workflow_logic imported it
    chain,              \* llm: the chain argument of process_large_text_robust
    correction_chain,   \* llm: the module attribute llm_prompts.correction_chain
    ilog,               \* llm: the last chain.invoke call, and whether it ended in a rotation
    key_rotation,       \* keys: GEMINI_API_KEYS, _current_key_index, _keys_tried_this_session
    klog,               \* keys: the rotate_key calls since the tried set was last cleared
    asr,                \* asr: position and result of one transcribe_chunk call
    xr,                 \* external resolver: the script, and the last resolve call
    ck,                 \* chunking: main's adaptive configuration and chunking loop
    fx                  \* fix: position and result of fix_context_blindness

vars == <<comp, text, max_removal_percent, similarity_threshold, dd,
          fuzzy_corpus, process, memory, cache_file, added, rs, cx,
          transcripts, chunk_index, full_text, mlog, mpc,
          futures, results, final_transcripts, merge_calls, jpc,
          store_file, loaded, savers, written, now, mlast,
          chunks, processed_parts, rate_limiter, lpos, llog,
          max_retries, chain, correction_chain, ilog, key_rotation, klog, asr, xr, ck, fx>>

dedupVars == <<text, max_removal_percent, similarity_threshold, dd>>
resolverVars == <<fuzzy_corpus, process, memory, cache_file, added, rs, cx, xr, fx>>
mergeVars == <<transcripts, chunk_index, full_text, mlog, mpc>>
jobVars == <<futures, results, final_transcripts, merge_calls, jpc>>
storeVars == <<store_file, loaded, savers, written, now, mlast>>
limiterVars == <<chunks, processed_parts, rate_limiter, lpos, llog,
                 max_retries, chain, correction_chain, ilog>>
keyVars == <<key_rotation, klog>>
otherServiceVars == <<jobVars, storeVars, limiterVars, keyVars, asr>>
serviceVars == <<otherServiceVars, ck>>

----------------------------------------------------------------------------
(* Python str primitives on sequences of characters.                       *)

NL == "\n"
SP == " "

IsSpace(c) == c \in {SP, NL}

UpperLetters == <<"A", "B", "C", "D", "E", "F", "G", "H", "I", "J", "K", "L",
                  "M", "N", "O", "P", "Q", "R", "S", "T", "U", "V", "W", "X", "Y", "Z">>

LowerLetters == <<"a", "b", "c", "d", "e", "f", "g", "h", "i", "j", "k", "l",
                  "m", "n", "o", "p", "q", "r", "s", "t", "u", "v", "w", "x", "y", "z">>

\* str.lower() and str.upper() on the letters
ToLower ==
    [c \in {UpperLetters[i] : i \in 1..26} |->
        LowerLetters[CHOOSE i \in 1..26 : UpperLetters[i] = c]]

ToUpper ==
    [c \in {LowerLetters[i] : i \in 1..26} |->
        UpperLetters[CHOOSE i \in 1..26 : LowerLetters[i] = c]]

IsUpperLetter(c) == c \in DOMAIN ToLower

IsLowerLetter(c) == c \in DOMAIN ToUpper

\* str.lower() on one character
LowerChar(c) == IF c \in DOMAIN ToLower THEN ToLower[c] ELSE c

\* str.lower()
Lower(s) == [i \in 1..Len(s) |-> LowerChar(s[i])]

\* str.upper() on one character
UpperChar(c) == IF c \in DOMAIN ToUpper THEN ToUpper[c] ELSE c

\* str.upper()
UpperStr(s) == [i \in 1..Len(s) |-> UpperChar(s[i])]

\* Body(v): the value v is computed once and then used
With(v, Body(_)) == CHOOSE r \in {Body(x) : x \in {v}} : TRUE

RECURSIVE LStrip(_)
LStrip(s) == IF s # <<>> /\ IsSpace(Head(s)) THEN LStrip(Tail(s)) ELSE s

RECURSIVE RStrip(_)
RStrip(s) ==
    IF s # <<>> /\ IsSpace(s[Len(s)]) THEN RStrip(SubSeq(s, 1, Len(s) - 1)) ELSE s

\* str.strip()
Strip(s) == RStrip(LStrip(s))

\* s.find(c) for a single character, 1-based, 0 when absent
RECURSIVE FindChar(_, _, _)
FindChar(s, c, from) ==
    IF from > Len(s) THEN 0
    ELSE IF s[from] = c THEN from ELSE FindChar(s, c, from + 1)

\* s.split(c): keeps empty pieces, always at least one piece
RECURSIVE Split(_, _)
Split(s, c) ==
    With(s, LAMBDA v :
    With(FindChar(v, c, 1), LAMBDA i :
        IF i = 0 THEN <<v>>
        ELSE <<SubSeq(v, 1, i - 1)>> \o Split(SubSeq(v, i + 1, Len(v)), c)))

\* sep.join(parts)
RECURSIVE Join(_, _)
Join(parts, sep) ==
    IF parts = <<>> THEN <<>>
    ELSE IF Len(parts) = 1 THEN parts[1]
    ELSE parts[1] \o sep \o Join(Tail(parts), sep)

\* len(s.split()): number of maximal runs of non-whitespace characters
WordCount(s) ==
    Cardinality({i \in 1..Len(s) :
        /\ ~IsSpace(s[i])
        /\ (i = 1 \/ IsSpace(s[i - 1]))})

\* hay.find(needle) from position `from`, 1-based, 0 when absent
RECURSIVE FindFrom(_, _, _)
FindFrom(hay, needle, from) ==
    IF from + Len(needle) - 1 > Len(hay) THEN 0
    ELSE IF SubSeq(hay, from, from + Len(needle) - 1) = needle THEN from
    ELSE FindFrom(hay, needle, from + 1)

Find(hay, needle) == FindFrom(hay, needle, 1)

\* needle in hay
Contains(hay, needle) == Find(hay, needle) # 0

\* number of positions at which needle occurs in hay
Occurrences(hay, needle) ==
    Cardinality({i \in 1..Len(hay) :
        /\ i + Len(needle) - 1 <= Len(hay)
        /\ SubSeq(hay, i, i + Len(needle) - 1) = needle})

\* re.sub(r"\s+", " ", s)
CollapseSpace(s) ==
    With(s, LAMBDA v :
    With(SelectSeq([i \in 1..Len(v) |-> i],
                   LAMBDA i : ~IsSpace(v[i]) \/ i = 1 \/ ~IsSpace(v[i - 1])),
         LAMBDA kept :
            [k \in 1..Len(kept) |-> IF IsSpace(v[kept[k]]) THEN SP ELSE v[kept[k]]]))

----------------------------------------------------------------------------
(* difflib.SequenceMatcher(None, a, b).ratio() for strings shorter than    *)
(* the autojunk limit: the Ratcliff/Obershelp matching blocks.             *)

\* length of the common run starting at a[i], b[j] inside the given ranges
RECURSIVE RunLen(_, _, _, _, _, _)
RunLen(a, b, i, j, ahi, bhi) ==
    IF i > ahi \/ j > bhi \/ a[i] # b[j] THEN 0
    ELSE 1 + RunLen(a, b, i + 1, j + 1, ahi, bhi)

\* find_longest_match: longest block, earliest in a, then earliest in b. A
\* longest block starts where the characters before it differ (or at the edge
\* of the range), so only those positions are candidates.
FindLongestMatch(a, b, alo, ahi, blo, bhi) ==
    With({[i |-> p[1], j |-> p[2], k |-> RunLen(a, b, p[1], p[2], ahi, bhi)] :
             p \in {q \in (alo..ahi) \X (blo..bhi) :
                       /\ a[q[1]] = b[q[2]]
                       /\ (q[1] = alo \/ q[2] = blo \/ a[q[1] - 1] # b[q[2] - 1])}},
         LAMBDA blocks :
            IF blocks = {} THEN [i |-> alo, j |-> blo, k |-> 0]
            ELSE CHOOSE m \in blocks :
                    \A q \in blocks :
                        \/ m.k > q.k
                        \/ /\ m.k = q.k
                           /\ \/ m.i < q.i
                              \/ m.i = q.i /\ m.j <= q.j)

\* sum of the sizes of get_matching_blocks() over a[alo..ahi], b[blo..bhi]
RECURSIVE MatchTotal(_, _, _, _, _, _)
MatchTotal(a, b, alo, ahi, blo, bhi) ==
    IF alo > ahi \/ blo > bhi THEN 0
    ELSE With(FindLongestMatch(a, b, alo, ahi, blo, bhi), LAMBDA m :
            IF m.k = 0 THEN 0
            ELSE m.k + MatchTotal(a, b, alo, m.i - 1, blo, m.j - 1)
                     + MatchTotal(a, b, m.i + m.k, ahi, m.j + m.k, bhi))

\* ratio() as the fraction num/den (den = 0 stands for the ratio 1.0 of two
\* empty strings)
Ratio(a, b) ==
    With(a, LAMBDA x :
    With(b, LAMBDA y :
        [num |-> 2 * MatchTotal(x, y, 1, Len(x), 1, Len(y)), den |-> Len(x) + Len(y)]))

\* r1 > r2 for two ratios
RatioGT(r1, r2) ==
    LET n1 == IF r1.den = 0 THEN 1 ELSE r1.num
        d1 == IF r1.den = 0 THEN 1 ELSE r1.den
        n2 == IF r2.den = 0 THEN 1 ELSE r2.num
        d2 == IF r2.den = 0 THEN 1 ELSE r2.den
    IN n1 * d2 > n2 * d1

\* a threshold given in percent, as a ratio
Pct(p) == [num |-> p, den |-> 100]

\* r >= p percent
RatioGE(r, p) == ~RatioGT(Pct(p), r)

\* s.split(): the maximal runs of non-whitespace characters
RECURSIVE Words(_)
Words(s) ==
    LET t == LStrip(s) IN
    IF t = <<>> THEN <<>>
    ELSE LET sp == CHOOSE i \in 1..(Len(t) + 1) :
                      /\ (i = Len(t) + 1 \/ IsSpace(t[i]))
                      /\ \A k \in 1..(i - 1) : ~IsSpace(t[k])
         IN <<SubSeq(t, 1, sp - 1)>> \o Words(SubSeq(t, sp, Len(t)))

Range(f) == {f[i] : i \in DOMAIN f}

NonEmpty(s) == s # <<>>

----------------------------------------------------------------------------
(* Deduplication engine.                                                   *)

\* content of a line: the bullet regex ^-\s+(.+)$ on the stripped line
BulletContent(line_stripped) ==
    IF /\ Len(line_stripped) >= 3
       /\ line_stripped[1] = "-"
       /\ IsSpace(line_stripped[2])
    THEN Strip(Tail(line_stripped))
    ELSE line_stripped

\* the for-loop of safe_deduplicate over lines[i..]
RECURSIVE SafeLoop(_, _, _)
SafeLoop(lines, i, st) ==
    IF i > Len(lines) THEN st
    ELSE
      LET line == lines[i]
          line_stripped == Strip(line)
          content == BulletContent(line_stripped)
          consecutive == IF {content} = st.prev_content
                         THEN st.consecutive_count + 1 ELSE 0
      IN
      IF line_stripped = <<>>
      THEN SafeLoop(lines, i + 1,
                    [st EXCEPT !.result = Append(@, line),
                               !.prev_content = {},
                               !.consecutive_count = 0])
      ELSE IF {content} = st.prev_content /\ consecutive >= 2
      THEN SafeLoop(lines, i + 1,
                    [st EXCEPT !.removed_count = @ + 1,
                               !.consecutive_count = consecutive])
      ELSE IF content \in st.seen
      THEN SafeLoop(lines, i + 1,
                    [st EXCEPT !.removed_count = @ + 1,
                               !.consecutive_count = consecutive])
      ELSE SafeLoop(lines, i + 1,
                    [st EXCEPT !.seen = @ \cup {content},
                               !.result = Append(@, line),
                               !.prev_content = {content},
                               !.consecutive_count = consecutive])

\* stats["safe"]: removal_percent <= max_removal_percent
SafeWithinCeilingStrict(original_words, cleaned_words, f) ==
    IF original_words > 0
    THEN (original_words - cleaned_words) * 100 < f * original_words
    ELSE 0 < f

SafeWithinCeiling(original_words, cleaned_words, f) ==
    IF original_words > 0
    THEN (original_words - cleaned_words) * 100 <= f * original_words
    ELSE 0 <= f

safe_deduplicate(t, f) ==
    LET st == SafeLoop(Split(t, NL), 1,
                       [seen |-> {}, result |-> <<>>, removed_count |-> 0,
                        prev_content |-> {}, consecutive_count |-> 0])
        cleaned_text == Join(st.result, <<NL>>)
        original_words == WordCount(t)
        cleaned_words == WordCount(cleaned_text)
        safe == SafeWithinCeiling(original_words, cleaned_words, f)
    IN [op |-> "safe_deduplicate",
        out |-> IF safe THEN cleaned_text ELSE t,
        cleaned |-> cleaned_text,
        removed |-> st.removed_count,
        applied |-> safe]

DUP == <<"[", "D", "U", "P", "]">>

\* for line in lines: if '[DUP]' in line: skip
KeepsLineAnyCase(line) == ~Contains(Lower(line), Lower(DUP))

KeepsLine(line) == ~Contains(line, DUP)

remove_duplicates(t) ==
    IF t = <<>>
    THEN [op |-> "remove_duplicates", out |-> t, cleaned |-> t,
          removed |-> 0, applied |-> TRUE]
    ELSE LET lines == Split(t, NL)
             cleaned_lines == SelectSeq(lines, KeepsLine)
         IN [op |-> "remove_duplicates",
             out |-> Join(cleaned_lines, <<NL>>),
             cleaned |-> Join(cleaned_lines, <<NL>>),
             removed |-> Len(lines) - Len(cleaned_lines),
             applied |-> TRUE]

HAS_PYTHAINLP == FALSE

\* re.split(r'\s{2,}', line), pieces stripped, empty pieces dropped
RECURSIVE SplitDoubleSpace(_)
SplitDoubleSpace(line) ==
    LET gaps == {i \in 1..(Len(line) - 1) : IsSpace(line[i]) /\ IsSpace(line[i + 1])} IN
    IF gaps = {} THEN (IF Strip(line) = <<>> THEN <<>> ELSE <<Strip(line)>>)
    ELSE LET g == CHOOSE i \in gaps : \A k \in gaps : i <= k
             left == Strip(SubSeq(line, 1, g - 1))
         IN (IF left = <<>> THEN <<>> ELSE <<left>>)
            \o SplitDoubleSpace(LStrip(SubSeq(line, g, Len(line))))

RECURSIVE SplitLongLines(_)
SplitLongLines(raw_lines) ==
    IF raw_lines = <<>> THEN <<>>
    ELSE (IF Len(Head(raw_lines)) > 200
          THEN SplitDoubleSpace(Head(raw_lines))
          ELSE <<Head(raw_lines)>>) \o SplitLongLines(Tail(raw_lines))

StripAll(lines) == [i \in 1..Len(lines) |-> Strip(lines[i])]

\* split_sentences_smart with SENTENCE_SPLIT_STRATEGY = "newline"
split_sentences_smart(t) ==
    IF Strip(t) = <<>> THEN <<>>
    ELSE SplitLongLines(SelectSeq(StripAll(Split(t, NL)), NonEmpty))

\* calculate_sentence_similarity: ratio of the stripped, lower-cased sentences
calculate_sentence_similarity(sent1, sent2) ==
    Ratio(Lower(Strip(sent1)), Lower(Strip(sent2)))

IsDigit(c) == c \in {"0", "1", "2", "3", "4", "5", "6", "7", "8", "9"}

\* score_sentence_quality, in tenths
score_sentence_quality(sent) ==
    IF sent = <<>> THEN 0
    ELSE LET s == Strip(sent)
             words == Words(sent)
         IN Len(sent)
            + (IF s # <<>> /\ s[Len(s)] \in {".", "!", "?"} THEN 200 ELSE 0)
            + (IF words # <<>> /\ Cardinality(Range(words)) * 10 > 8 * Len(words)
               THEN 100 ELSE 0)
            + (IF ~Contains(sent, <<".", ".", ".">>) /\ ~Contains(sent, <<"?", "?", "?">>)
               THEN 50 ELSE 0)
            + (IF \E i \in 1..Len(sent) : IsDigit(sent[i]) THEN 30 ELSE 0)

look_ahead == 5

\* the outer for-loop of remove_chunk_boundary_duplicates from index i
RECURSIVE BoundaryLoop(_, _, _, _)
BoundaryLoop(sentences, thr, i, st) ==
    IF i > Len(sentences) THEN st
    ELSE IF i \in st.skip_indices THEN BoundaryLoop(sentences, thr, i + 1, st)
    ELSE
      LET hits == {j \in 1..look_ahead :
                      /\ i + j <= Len(sentences)
                      /\ (i + j) \notin st.skip_indices
                      /\ RatioGE(calculate_sentence_similarity(sentences[i],
                                                               sentences[i + j]), thr)}
      IN
      IF hits = {}
      THEN BoundaryLoop(sentences, thr, i + 1,
                        [st EXCEPT !.cleaned = Append(@, i)])
      ELSE LET j == CHOOSE h \in hits : \A k \in hits : h <= k IN
           IF score_sentence_quality(sentences[i]) >= score_sentence_quality(sentences[i + j])
           THEN BoundaryLoop(sentences, thr, i + 1,
                             [st EXCEPT !.skip_indices = @ \cup {i + j},
                                        !.removed_count = @ + 1,
                                        !.cleaned = Append(@, i)])
           ELSE BoundaryLoop(sentences, thr, i + 1,
                             [st EXCEPT !.removed_count = @ + 1])

remove_chunk_boundary_duplicates(t, thr) ==
    LET sentences == split_sentences_smart(t) IN
    IF Len(sentences) <= 1
    THEN [op |-> "remove_chunk_boundary_duplicates", out |-> t, cleaned |-> t,
          removed |-> 0, applied |-> TRUE]
    ELSE LET st == BoundaryLoop(sentences, thr, 1,
                                [skip_indices |-> {}, removed_count |-> 0,
                                 cleaned |-> <<>>])
             cleaned_text == Join([k \in 1..Len(st.cleaned) |-> sentences[st.cleaned[k]]],
                                  <<NL, NL>>)
         IN [op |-> "remove_chunk_boundary_duplicates", out |-> cleaned_text,
             cleaned |-> cleaned_text, removed |-> st.removed_count,
             applied |-> TRUE]


----------------------------------------------------------------------------
(* Deduplication: inputs and operations.                                   *)

MaxLines == 3

DedupLines ==
    { <<>>,
      <<"a", " ", "b">>,
      <<"-", " ", "a", " ", "b">>,
      <<"c">>,
      <<"[", "D", "U", "P", "]", "c">>,
      <<"[", "d", "u", "p", "]", "c">>,
      <<"c", "[", "D", "U", "P", "]">>,
      <<"A", " ", "b">>,
      <<"a", "b", "c", "d", "e", "f", ".">>,
      <<"a", "b", "c", "d", "e", "f">>,
      <<"a", "b", "c", "d", "e">> }

RECURSIVE SeqsUpTo(_, _)
SeqsUpTo(S, n) ==
    IF n = 0 THEN {<<>>}
    ELSE LET shorter == SeqsUpTo(S, n - 1) IN
         shorter \cup {Append(q, x) : q \in {r \in shorter : Len(r) = n - 1}, x \in S}

DedupTexts == {Join(ls, <<NL>>) : ls \in SeqsUpTo(DedupLines, MaxLines) \ {<<>>}}

Ceilings == {0, 10, 30, 50}

BoundaryThresholds == {85, 98}

NoDedup == [op |-> "none", out |-> <<>>, cleaned |-> <<>>, removed |-> 0, applied |-> FALSE]

SafeDeduplicate ==
    /\ comp = "dedup"
    /\ dd.op = "none"
    /\ dd' = safe_deduplicate(text, max_removal_percent)
    /\ UNCHANGED <<comp, text, max_removal_percent, similarity_threshold>>
    /\ UNCHANGED <<resolverVars, mergeVars, serviceVars>>

RemoveDuplicates ==
    /\ comp = "dedup"
    /\ dd.op = "none"
    /\ dd' = remove_duplicates(text)
    /\ UNCHANGED <<comp, text, max_removal_percent, similarity_threshold>>
    /\ UNCHANGED <<resolverVars, mergeVars, serviceVars>>

RemoveChunkBoundaryDuplicates ==
    /\ comp = "dedup"
    /\ dd.op = "none"
    /\ dd' = remove_chunk_boundary_duplicates(text, similarity_threshold)
    /\ UNCHANGED <<comp, text, max_removal_percent, similarity_threshold>>
    /\ UNCHANGED <<resolverVars, mergeVars, serviceVars>>

----------------------------------------------------------------------------
(* Entity resolver: StockContextManager and SmartMarketResolver.           *)

NONE == <<"None">>

EmptyDict == [k \in {} |-> <<>>]

\* d.update(e)
Update(d, e) ==
    [k \in (DOMAIN d) \cup (DOMAIN e) |-> IF k \in DOMAIN e THEN e[k] ELSE d[k]]

\* d[k] = v
Put(d, k, v) == [x \in (DOMAIN d) \cup {k} |-> IF x = k THEN v ELSE d[x]]

\* s.replace(sub, "")
RECURSIVE RemoveAll(_, _)
RemoveAll(s, sub) ==
    LET i == Find(s, sub) IN
    IF i = 0 THEN s
    ELSE SubSeq(s, 1, i - 1) \o RemoveAll(SubSeq(s, i + Len(sub), Len(s)), sub)

DotBK == <<".", "B", "K">>

AOT_BK == <<"A", "O", "T", ".", "B", "K">>
TISCO_BK == <<"T", "I", "S", "C", "O", ".", "B", "K">>
KBANK_BK == <<"K", "B", "A", "N", "K", ".", "B", "K">>

\* the knowledge base document: <<sector, ticker, aliases>>
MASTER_KB ==
    { <<"Transport", AOT_BK, <<>> >>,
      <<"Bank", TISCO_BK, << <<"T", "i", "s", "g", "o">> >> >> }

\* StockContextManager.load_kb: clean ticker and aliases, lower-cased, -> ticker
LoadKB(data) ==
    LET keysOf(e) == {Lower(RemoveAll(e[2], DotBK))} \cup {Lower(a) : a \in Range(e[3])}
        keys == UNION {keysOf(e) : e \in data}
    IN [k \in keys |-> (CHOOSE e \in data : k \in keysOf(e))[2]]

\* SmartMarketResolver.__init__: memory = search_corpus, updated from the cache file
NewMemory(corpus, cf) ==
    Update(corpus, IF cf.kind = "json" THEN cf.data ELSE EmptyDict)

\* save_cache, the file: reload (an unreadable file counts as empty), set, rewrite
SaveCacheFile(cf, mention, ticker) ==
    [kind |-> "json",
     data |-> Put(IF cf.kind = "json" THEN cf.data ELSE EmptyDict, Lower(mention), ticker)]

\* save_cache, the in-memory index
SaveCacheMemoryLost(mem, mention, ticker) == mem

SaveCacheMemory(mem, mention, ticker) == Put(mem, Lower(mention), ticker)

\* re.match(r"^[A-Za-z]+$", mention): $ also matches before a final newline
is_english(mention) ==
    LET core == IF mention # <<>> /\ mention[Len(mention)] = NL
                THEN SubSeq(mention, 1, Len(mention) - 1) ELSE mention
    IN /\ core # <<>>
       /\ \A i \in 1..Len(core) : IsUpperLetter(core[i]) \/ IsLowerLetter(core[i])

\* Safety Rule A: a ticker of at most 3 characters needs a score of 100
RuleABlocksShorter(ticker_clean, score) == Len(ticker_clean) < 3 /\ score < 100

RuleABlocks(ticker_clean, score) == Len(ticker_clean) <= 3 /\ score < 100

\* Safety Rule B: an English mention needs a score of at least 95
RuleBBlocksGeneral(mention, score) == is_english(mention) /\ score < 90

RuleBBlocks(mention, score) == is_english(mention) /\ score < 95

\* the acceptance floor of the fuzzy stage
AcceptsLow(score) == score >= 85

Accepts(score) == score >= 90

\* the scores thefuzz's extractOne may report
Scores == {85, 92, 97, 100}

\* resolve, the fuzzy stage, for the candidate and score extractOne returned
FuzzyStage(mem, cf, corpus, mention, best_match, score) ==
    LET mention_key == Strip(Lower(mention))
        ticker == corpus[best_match]
        ticker_clean == RemoveAll(ticker, DotBK)
        base == [mention |-> mention, key |-> mention_key, fuzzy_ran |-> TRUE,
                 best_match |-> best_match, score |-> score,
                 ticker_clean |-> ticker_clean]
    IN IF RuleABlocks(ticker_clean, score) \/ RuleBBlocks(mention, score)
          \/ ~Accepts(score)
       THEN [call |-> base @@ [outcome |-> "none", ret |-> NONE],
             memory |-> mem, cache_file |-> cf, saved |-> FALSE]
       ELSE [call |-> base @@ [outcome |-> "fuzzy", ret |-> ticker],
             memory |-> SaveCacheMemory(mem, mention_key, ticker),
             cache_file |-> SaveCacheFile(cf, mention_key, ticker),
             saved |-> TRUE]

\* resolve, the outcomes that do not reach extractOne's result
EarlyStage(mem, corpus, proc, mention) ==
    LET mention_key == Strip(Lower(mention))
        base == [mention |-> mention, key |-> mention_key,
                 best_match |-> NONE, score |-> 0, ticker_clean |-> NONE]
    IN IF mention_key \in DOMAIN mem
       THEN base @@ [outcome |-> "exact", ret |-> mem[mention_key], fuzzy_ran |-> FALSE]
       ELSE IF ~proc
       THEN base @@ [outcome |-> "none", ret |-> NONE, fuzzy_ran |-> FALSE]
       ELSE IF DOMAIN corpus = {}
       THEN base @@ [outcome |-> "raise", ret |-> NONE, fuzzy_ran |-> TRUE]
       ELSE base @@ [outcome |-> "fuzzy_pending", ret |-> NONE, fuzzy_ran |-> TRUE]

Mentions ==
    { <<"A", "O", "T">>,
      <<"A", "O", "T", "T">>,
      <<"T", "i", "s", "k", "o">>,
      <<" ", "T", "i", "s", "k", "o">>,
      <<"T", "i", "s", "k", "o", "\n">>,
      <<"T", "i", "s", "-", "k", "o">> }

NoCall == [mention |-> NONE, key |-> NONE, outcome |-> "idle", ret |-> NONE,
           fuzzy_ran |-> FALSE, best_match |-> NONE, score |-> 0,
           ticker_clean |-> NONE, prior |-> NONE, fresh |-> FALSE]

\* a resolver that has been constructed and not called yet
Constructed == [NoCall EXCEPT !.outcome = "constructed"]

NoContextCall == [entity |-> NONE, context |-> NONE, type |-> "idle",
                  resolved |-> NONE, confidence |-> 0]

\* the ticker a fuzzy acceptance has already persisted for this mention
PriorOf(mention) ==
    IF \E e \in added : e.mention = mention
    THEN (CHOOSE e \in added : e.mention = mention).ticker
    ELSE NONE

\* resolve(mention) answered without a fuzzy candidate
ResolveEarly(mention) ==
    LET call == EarlyStage(memory, fuzzy_corpus, process, mention) IN
    /\ call.outcome # "fuzzy_pending"
    /\ rs' = call @@ [prior |-> PriorOf(mention), fresh |-> rs = Constructed]
    /\ UNCHANGED <<memory, cache_file, added>>

\* resolve(mention) through the fuzzy stage
ResolveFuzzy(mention) ==
    /\ EarlyStage(memory, fuzzy_corpus, process, mention).outcome = "fuzzy_pending"
    /\ \E best_match \in DOMAIN fuzzy_corpus, score \in Scores :
         LET r == FuzzyStage(memory, cache_file, fuzzy_corpus, mention, best_match, score) IN
         /\ rs' = r.call @@ [prior |-> PriorOf(mention), fresh |-> rs = Constructed]
         /\ memory' = r.memory
         /\ cache_file' = r.cache_file
         /\ added' = IF r.saved
                     THEN added \cup {[mention |-> mention, key |-> r.call.key,
                                       ticker |-> r.call.ret, score |-> score,
                                       ticker_clean |-> r.call.ticker_clean]}
                     ELSE added

Resolve ==
    /\ comp = "resolver"
    /\ \E mention \in Mentions : ResolveEarly(mention) \/ ResolveFuzzy(mention)
    /\ UNCHANGED <<comp, fuzzy_corpus, process, cx, xr, fx>>
    /\ UNCHANGED <<dedupVars, mergeVars, serviceVars>>

\* a new SmartMarketResolver over the same context manager and cache file
NewResolver ==
    /\ comp = "resolver"
    /\ memory' = NewMemory(fuzzy_corpus, cache_file)
    /\ rs' = Constructed
    /\ UNCHANGED <<comp, fuzzy_corpus, process, cache_file, added, cx, xr, fx>>
    /\ UNCHANGED <<dedupVars, mergeVars, serviceVars>>

----------------------------------------------------------------------------
(* Context-aware resolver: ContextAwareResolver.                           *)

\* the Thai letters of the indicator phrases that the regex class \w matches
\* (the vowel and tone marks above and below the line are not in \w)
ThaiWordChars == {"u0e01", "u0e07", "u0e0a", "u0e0d", "u0e14", "u0e17", "u0e18", "u0e19", "u0e1a", "u0e1b", "u0e21", "u0e23", "u0e27", "u0e2a", "u0e2b", "u0e2d", "u0e32", "u0e40", "u0e43"}

\* the regex class \w
IsWordChar(c) ==
    \/ IsUpperLetter(c) \/ IsLowerLetter(c) \/ IsDigit(c) \/ c = "_"
    \/ c \in ThaiWordChars

\* the regex assertion \b in front of position i of s
WordBoundary(s, i) ==
    LET before == i > 1 /\ i - 1 <= Len(s) /\ IsWordChar(s[i - 1])
        after == i >= 1 /\ i <= Len(s) /\ IsWordChar(s[i])
    IN before # after

\* first position at or after i that is not whitespace
RECURSIVE SkipSpace(_, _)
SkipSpace(s, i) == IF i <= Len(s) /\ IsSpace(s[i]) THEN SkipSpace(s, i + 1) ELSE i

\* the literal parts of an indicator, separated by \s*, matched from position i
\* ignoring case: the position after the match, 0 when there is none
RECURSIVE MatchParts(_, _, _)
MatchParts(s, parts, i) ==
    IF parts = <<>> THEN i
    ELSE LET lit == Lower(Head(parts))
             j == i + Len(lit)
         IN IF j - 1 <= Len(s) /\ \A n \in 1..Len(lit) : LowerChar(s[i + n - 1]) = lit[n]
            THEN (IF Len(parts) = 1 THEN j
                  ELSE MatchParts(s, Tail(parts), SkipSpace(s, j)))
            ELSE 0

\* re.compile('|'.join(indicators), re.IGNORECASE).search(s), each indicator
\* being \b part \s* part ... \b
Search(indicators, s) ==
    \E k \in 1..Len(indicators), i \in 1..Len(s) :
        LET j == MatchParts(s, indicators[k], i) IN
        /\ j # 0
        /\ WordBoundary(s, i)
        /\ WordBoundary(s, j)

KONGTUN == <<"u0e01", "u0e2d", "u0e07", "u0e17", "u0e38", "u0e19">>

fund_indicators ==
    << <<<<"u0e01", "u0e2d", "u0e07", "u0e17", "u0e38", "u0e19">>>>,
       <<<<"m", "u", "t", "u", "a", "l">>, <<"f", "u", "n", "d">>>>,
       <<<<"f", "u", "n", "d">>>>,
       <<<<"u0e01", "u0e2d", "u0e07", "u0e17", "u0e38", "u0e19", "u0e23", "u0e27", "u0e21">>>>,
       <<<<"u0e01", "u0e2d", "u0e07", "u0e17", "u0e38", "u0e19", "u0e40", "u0e1b", "u0e34", "u0e14">>>>,
       <<<<"u0e01", "u0e2d", "u0e07", "u0e17", "u0e38", "u0e19", "u0e1b", "u0e34", "u0e14">>>> >>

stock_indicators ==
    << <<<<"u0e2b", "u0e38", "u0e49", "u0e19">>>>,
       <<<<"s", "t", "o", "c", "k">>>>,
       <<<<"s", "h", "a", "r", "e">>>>,
       <<<<"u0e2b", "u0e38", "u0e49", "u0e19", "u0e2a", "u0e32", "u0e21", "u0e31", "u0e0d">>>>,
       <<<<"u0e2b", "u0e38", "u0e49", "u0e19", "u0e1a", "u0e38", "u0e23", "u0e34", "u0e21", "u0e2a", "u0e34", "u0e17", "u0e18", "u0e34">>>> >>

index_indicators ==
    << <<<<"i", "n", "d", "e", "x">>>>,
       <<<<"u0e14", "u0e31", "u0e0a", "u0e19", "u0e35">>>>,
       <<<<"S", "E", "T">>, <<"I", "n", "d", "e", "x">>>>,
       <<<<"S", "E", "T">>, <<"5", "0">>>>,
       <<<<"S", "E", "T">>, <<"1", "0", "0">>>> >>

index_names ==
    { <<"s", "e", "t">>, <<"s", "e", "t", " ", "i", "n", "d", "e", "x">>,
      <<"d", "o", "w", " ", "j", "o", "n", "e", "s">>, <<"n", "a", "s", "d", "a", "q">>,
      <<"s", "&", "p", " ", "5", "0", "0">> }

THAI_ESG == <<"T", "H", "A", "I", " ", "E", "S", "G">>
KKP == <<"K", "K", "P">>

\* _load_known_funds_from_kb without a finance-terms file: the fallback list
known_funds == [k \in {THAI_ESG, KKP} |-> k]

context_window == 200

\* the double-check of the fund branch: the Thai word is in the context
FundDoubleCheck(context_lower) == Contains(context_lower, KONGTUN)

detect_entity_type(entity, context) ==
    LET context_lower == Lower(context)
        entity_lower == Lower(entity)
    IN IF Search(fund_indicators, context) /\ FundDoubleCheck(context_lower)
       THEN "fund"
       ELSE IF Search(stock_indicators, context) THEN "stock"
       ELSE IF Search(index_indicators, context) \/ entity_lower \in index_names
       THEN "index"
       ELSE IF UpperStr(entity) \in DOMAIN known_funds
       THEN (IF Contains(context_lower, KONGTUN) THEN "fund" ELSE "stock")
       ELSE "unknown"

\* re.search(re.escape(entity), text, re.IGNORECASE).start(), 0 when absent
SearchEntity(entity, txt) == Find(Lower(txt), Lower(entity))

\* text[max(0, position - window) : min(len(text), position + len(entity) + window)]
ContextOf(entity, txt, position) ==
    LET lo == IF position - context_window > 1 THEN position - context_window ELSE 1
        hi == IF position + Len(entity) + context_window - 1 < Len(txt)
              THEN position + Len(entity) + context_window - 1 ELSE Len(txt)
    IN SubSeq(txt, lo, hi)

\* the result of resolve_with_context for the types that need no resolver call
\* (confidence in tenths; no finance-term manager is attached)
ResolutionWithoutResolver(entity, context, entity_type) ==
    LET known == UpperStr(entity) \in DOMAIN known_funds IN
    [entity |-> entity, context |-> context, type |-> entity_type,
     resolved |-> IF entity_type = "fund" /\ known
                  THEN known_funds[UpperStr(entity)] ELSE entity,
     confidence |-> CASE entity_type = "fund" -> (IF known THEN 10 ELSE 9)
                      [] entity_type = "index" -> 7
                      [] OTHER -> 3]

\* the result of the stock branch for the ticker the resolver returned
StockResolution(entity, context, ticker) ==
    [entity |-> entity, context |-> context, type |-> "stock",
     resolved |-> IF ticker # NONE THEN RemoveAll(ticker, DotBK) ELSE entity,
     confidence |-> IF ticker # NONE THEN 9 ELSE 5]

Entities == {THAI_ESG, <<"T", "I", "S", "C", "O">>}

ContextPrefixes ==
    { <<>>,
      <<"u0e01", "u0e2d", "u0e07", "u0e17", "u0e38", "u0e19", " ">>,
      <<"M", "u", "t", "u", "a", "l", " ", " ", "F", "u", "n", "d", " ">>,
      <<"f", "u", "n", "d", " ">>,
      <<"u0e01", "u0e2d", "u0e07", "u0e17", "u0e38", "u0e19", "u0e23", "u0e27", "u0e21", " ">>,
      <<"u0e01", "u0e2d", "u0e07", "u0e17", "u0e38", "u0e19", "u0e40", "u0e1b", "u0e34", "u0e14", " ">>,
      <<"u0e01", "u0e2d", "u0e07", "u0e17", "u0e38", "u0e19", "u0e1b", "u0e34", "u0e14", " ">>,
      <<"u0e43", "u0e19", "u0e01", "u0e2d", "u0e07", "u0e17", "u0e38", "u0e19", " ">>,
      <<"u0e2b", "u0e38", "u0e49", "u0e19", " ">> }

ContextSuffixes ==
    { <<>>,
      <<" ", "s", "t", "o", "c", "k">>,
      <<" ", "i", "n", "d", "e", "x">> }

ContextTexts(entity) ==
    {pre \o entity \o suf : pre \in ContextPrefixes, suf \in ContextSuffixes}

\* the context window and the entity type of every call the model makes
ContextCalls ==
    [entity \in Entities |->
        [txt \in ContextTexts(entity) |->
            LET context == ContextOf(entity, txt, SearchEntity(entity, txt)) IN
            [context |-> context, type |-> detect_entity_type(entity, context)]]]

\* resolve_with_context from the detected type on: fund, index and unknown
\* entities keep their name; for a stock a new SmartMarketResolver is
\* constructed and asked
ResolveTyped(entity, context, entity_type) ==
    LET mem == NewMemory(fuzzy_corpus, cache_file)
        early == EarlyStage(mem, fuzzy_corpus, process, entity)
        prior == [prior |-> PriorOf(entity), fresh |-> TRUE]
    IN \/ /\ entity_type # "stock"
          /\ cx' = ResolutionWithoutResolver(entity, context, entity_type)
          /\ UNCHANGED <<memory, cache_file, added, rs>>
       \/ /\ entity_type = "stock"
          /\ early.outcome # "fuzzy_pending"
          /\ rs' = early @@ prior
          /\ cx' = IF early.outcome = "raise"
                   THEN [entity |-> entity, context |-> context, type |-> "raise",
                         resolved |-> NONE, confidence |-> 0]
                   ELSE StockResolution(entity, context, early.ret)
          /\ memory' = mem
          /\ UNCHANGED <<cache_file, added>>
       \/ /\ entity_type = "stock"
          /\ early.outcome = "fuzzy_pending"
          /\ \E best_match \in DOMAIN fuzzy_corpus, score \in Scores :
               LET r == FuzzyStage(mem, cache_file, fuzzy_corpus, entity, best_match, score) IN
               /\ rs' = r.call @@ prior
               /\ cx' = StockResolution(entity, context, r.call.ret)
               /\ memory' = r.memory
               /\ cache_file' = r.cache_file
               /\ added' = IF r.saved
                           THEN added \cup {[mention |-> entity, key |-> r.call.key,
                                             ticker |-> r.call.ret, score |-> score,
                                             ticker_clean |-> r.call.ticker_clean]}
                           ELSE added

\* resolve_with_context(entity, text), the entity being searched in the text
ResolveWithContextCall(entity, txt) ==
    ResolveTyped(entity, ContextCalls[entity][txt].context, ContextCalls[entity][txt].type)

ResolveWithContext ==
    /\ comp = "context"
    /\ \E entity \in Entities : \E txt \in ContextTexts(entity) :
         ResolveWithContextCall(entity, txt)
    /\ UNCHANGED <<comp, fuzzy_corpus, process, xr, fx>>
    /\ UNCHANGED <<dedupVars, mergeVars, serviceVars>>

----------------------------------------------------------------------------
(* ContextAwareResolver.fix_context_blindness.                             *)

\* the texts handed to fix_context_blindness: no indicator, the Thai word for
\* stock, or the word index, in front of one or two upper-case mentions
FixPrefixes ==
    { <<>>,
      <<"u0e2b", "u0e38", "u0e49", "u0e19", " ">>,
      <<"i", "n", "d", "e", "x", " ">> }

FixBodies ==
    { <<"A", "B", "C">>,
      <<"A", "O", "T", "T", " ", "A", "B", "C">>,
      <<"A", "B", "C", " ", "A", "O", "T", "T">>,
      <<"A", "O", "T", " ", "A", "B", "C">> }

FixTexts == {pre \o body : pre \in FixPrefixes, body \in FixBodies}

\* the length of the run of A-Z that starts at position i
RECURSIVE UpperRun(_, _)
UpperRun(s, i) == IF i <= Len(s) /\ IsUpperLetter(s[i]) THEN 1 + UpperRun(s, i + 1) ELSE 0

\* list(re.finditer(r'\b([A-Z]{2,6})\b', text)): start and group(1) of every
\* match, from left to right
EntityMatches(s) ==
    LET starts == {i \in 1..Len(s) :
                      /\ WordBoundary(s, i)
                      /\ UpperRun(s, i) \in 2..6
                      /\ WordBoundary(s, i + UpperRun(s, i))}
    IN [k \in 1..Cardinality(starts) |->
          With(CHOOSE i \in starts : Cardinality({j \in starts : j < i}) = k - 1, LAMBDA i :
               [start |-> i, entity |-> SubSeq(s, i, i + UpperRun(s, i) - 1)])]

\* the matches and, for each, its context window and entity type
FixCalls ==
    [txt \in FixTexts |->
        With(EntityMatches(txt), LAMBDA ms :
            [k \in DOMAIN ms |->
                With(ContextOf(ms[k].entity, txt, ms[k].start), LAMBDA context :
                    [start |-> ms[k].start, entity |-> ms[k].entity, context |-> context,
                     type |-> detect_entity_type(ms[k].entity, context)])])]

NoFix == [pc |-> "idle", text |-> <<>>, done |-> 0, fixed_text |-> <<>>, fixes |-> <<>>, log |-> <<>>]

\* if resolution and resolution['resolved'] != entity
ShouldFixAlways(resolution, entity) == TRUE

ShouldFix(resolution, entity) == resolution.resolved # entity

\* fixed_text[:match.start()] + resolved + fixed_text[match.end():]
Splice(fixed_text, m, resolved) ==
    SubSeq(fixed_text, 1, m.start - 1) \o resolved
        \o SubSeq(fixed_text, m.start + Len(m.entity), Len(fixed_text))

\* the body of the loop for the match m, given what resolve_with_context
\* returned (or that it raised)
AfterResolution(f, m, resolution) ==
    IF resolution.type = "raise" THEN [f EXCEPT !.pc = "raised"]
    ELSE With(ShouldFix(resolution, m.entity), LAMBDA applies :
         [f EXCEPT !.done = f.done + 1,
                   !.fixed_text = IF applies THEN Splice(f.fixed_text, m, resolution.resolved)
                                  ELSE f.fixed_text,
                   !.fixes = IF applies THEN Append(f.fixes, resolution) ELSE f.fixes,
                   !.log = Append(f.log, [start |-> m.start, entity |-> m.entity,
                                          type |-> resolution.type,
                                          resolved |-> resolution.resolved,
                                          confidence |-> resolution.confidence,
                                          fixes_before |-> Len(f.fixes)])])

\* one iteration of for match in reversed(entities)
FixMatch ==
    /\ comp = "fix"
    /\ fx.pc = "loop"
    /\ fx.done < Len(FixCalls[fx.text])
    /\ \E m \in {FixCalls[fx.text][Len(FixCalls[fx.text]) - fx.done]} :
          /\ ResolveTyped(m.entity, m.context, m.type)
          /\ fx' = AfterResolution(fx, m, cx')
    /\ UNCHANGED <<comp, fuzzy_corpus, process, xr>>
    /\ UNCHANGED <<dedupVars, mergeVars, serviceVars>>

\* return fixed_text, fixes
FixReturn ==
    /\ comp = "fix"
    /\ fx.pc = "loop"
    /\ fx.done = Len(FixCalls[fx.text])
    /\ fx' = [fx EXCEPT !.pc = "done"]
    /\ UNCHANGED <<comp, fuzzy_corpus, process, memory, cache_file, added, rs, cx, xr>>
    /\ UNCHANGED <<dedupVars, mergeVars, serviceVars>>


----------------------------------------------------------------------------
(* Chunk merger: merge_transcriptions.                                     *)

overlap_window == 1500

DEDUP_MERGE_OVERLAP_THRESHOLD == 70

\* prev_text[-overlap_window:]
TailWindow(s) ==
    IF Len(s) > overlap_window THEN SubSeq(s, Len(s) - overlap_window + 1, Len(s)) ELSE s

\* next_text[:overlap_window]
HeadWindow(s) == IF Len(s) > overlap_window THEN SubSeq(s, 1, overlap_window) ELSE s

\* prev_sentences[-check_count:] with check_count = min(3, len(prev_sentences))
BoundarySentences(prev_sentences) ==
    IF Len(prev_sentences) > 3
    THEN SubSeq(prev_sentences, Len(prev_sentences) - 2, Len(prev_sentences))
    ELSE prev_sentences

\* the nested scan for the best pair: the first pair, anchors outermost, whose
\* ratio is the highest of those above the threshold; <<0, 0>> when none is
BestMatch(boundary_sentences, next_sentences) ==
    With([p \in (1..Len(boundary_sentences)) \X (1..Len(next_sentences)) |->
             Ratio(boundary_sentences[p[1]], next_sentences[p[2]])],
         LAMBDA r :
    With({p \in DOMAIN r : RatioGT(r[p], Pct(DEDUP_MERGE_OVERLAP_THRESHOLD))},
         LAMBDA above :
            IF above = {} THEN <<0, 0>>
            ELSE CHOOSE p \in above :
                    \A q \in above :
                        \/ RatioGT(r[p], r[q])
                        \/ /\ ~RatioGT(r[q], r[p])
                           /\ \/ p[1] < q[1]
                              \/ p[1] = q[1] /\ p[2] <= q[2]))

\* full_text += " " + next_text
AppendWholeGlued(full, next_text) == full \o next_text

AppendWhole(full, next_text) == full \o <<SP>> \o next_text

\* one iteration of the for-loop over the chunks
MergeStep(full, chunk) ==
    With(Strip(chunk), LAMBDA next_text :
    With(split_sentences_smart(TailWindow(full)), LAMBDA prev_sentences :
    With(split_sentences_smart(HeadWindow(next_text)), LAMBDA next_sentences :
    With(BestMatch(BoundarySentences(prev_sentences), next_sentences)[2],
         LAMBDA best_match_index :
        IF next_text = <<>>
        THEN [full |-> full, branch |-> "skip", best |-> 0, n |-> 0]
        ELSE IF prev_sentences = <<>> \/ next_sentences = <<>>
        THEN [full |-> AppendWhole(full, next_text), branch |-> "no_sentences",
              best |-> 0, n |-> Len(next_sentences)]
        ELSE IF best_match_index # 0 /\ best_match_index + 1 <= Len(next_sentences)
        THEN With(Find(next_text, next_sentences[best_match_index + 1]),
                  LAMBDA cutoff_pos :
                IF cutoff_pos # 0
                THEN [full |-> full \o <<SP>> \o SubSeq(next_text, cutoff_pos, Len(next_text)),
                      branch |-> "splice", best |-> best_match_index,
                      n |-> Len(next_sentences)]
                ELSE [full |-> AppendWhole(full, next_text), branch |-> "not_found",
                      best |-> best_match_index, n |-> Len(next_sentences)])
        ELSE [full |-> AppendWhole(full, next_text), branch |-> "append",
              best |-> best_match_index, n |-> Len(next_sentences)]))))

\* re.sub(r"\s+", " ", full_text).strip()
Normalize(s) == Strip(CollapseSpace(s))

\* if not transcripts: return ""; full_text = transcripts[0].strip()
MergeStart ==
    /\ comp = "merge"
    /\ mpc = "start"
    /\ IF transcripts = <<>>
       THEN /\ mpc' = "done"
            /\ UNCHANGED <<full_text, chunk_index>>
       ELSE /\ full_text' = Strip(transcripts[1])
            /\ chunk_index' = 1
            /\ mpc' = "loop"
    /\ UNCHANGED <<transcripts, mlog, comp>>
    /\ UNCHANGED <<dedupVars, resolverVars, serviceVars>>

\* for chunk_index in range(1, len(transcripts)): one iteration
MergeChunk ==
    /\ comp = "merge"
    /\ mpc = "loop"
    /\ chunk_index < Len(transcripts)
    /\ \E r \in {MergeStep(full_text, transcripts[chunk_index + 1])} :
       /\ full_text' = r.full
       /\ mlog' = Append(mlog, [branch |-> r.branch, best |-> r.best, n |-> r.n])
    /\ chunk_index' = chunk_index + 1
    /\ UNCHANGED <<transcripts, mpc, comp>>
    /\ UNCHANGED <<dedupVars, resolverVars, serviceVars>>

\* return re.sub(r"\s+", " ", full_text).strip()
MergeFinish ==
    /\ comp = "merge"
    /\ mpc = "loop"
    /\ chunk_index = Len(transcripts)
    /\ full_text' = Normalize(full_text)
    /\ mpc' = "done"
    /\ UNCHANGED <<transcripts, chunk_index, mlog, comp>>
    /\ UNCHANGED <<dedupVars, resolverVars, serviceVars>>

MaxChunks == 3
MaxSentences == 3
MaxTotal == 4

S_AOT == <<"A", "O", "T", " ", "1", "0", "5">>
S_AOT_NOISY == <<"A", "O", "T", " ", "1", "0", "6">>
S_KBANK == <<"K", "B", "A", "N", "K", " ", "u", "p">>
S_SET == <<"S", "E", "T", " ", "d", "o", "w", "n">>

SentencePool == {S_AOT, S_AOT_NOISY, S_KBANK, S_SET}

\* number of pool sentences a chunk was laid out from
RECURSIVE Weight(_)
Weight(ws) == IF ws = <<>> THEN 0 ELSE Head(ws) + Weight(Tail(ws))

\* the chunk lists: at most MaxChunks chunks of at most MaxSentences sentences,
\* MaxTotal sentences in all; a chunk without sentences is a failed transcription
MergeShapes ==
    {ws \in SeqsUpTo(0..MaxSentences, MaxChunks) :
        Weight(ws) + Cardinality({i \in 1..Len(ws) : ws[i] = 0}) <= MaxTotal}

\* chunk i of the list: its ws[i] sentences out of g, one per line or all on
\* one line as sep[i] says
ChunkAt(ws, g, sep, i) ==
    LET before == Weight(SubSeq(ws, 1, i - 1))
    IN Join([k \in 1..ws[i] |-> g[before + k]], <<sep[i]>>)

MergeInput(ws, g, sep) == [i \in 1..Len(ws) |-> ChunkAt(ws, g, sep, i)]

----------------------------------------------------------------------------
(* The json module as the caches use it: json.dump(obj, f,                 *)
(* ensure_ascii=False, indent=2) and json.load(f).  A document is a string,*)
(* a number or an object whose members keep their insertion order.         *)

QUOTE == "\""
BACKSLASH == "\\"

JStr(s) == [t |-> "str", s |-> s, n |-> 0, items |-> <<>>]
JNum(n) == [t |-> "num", s |-> <<>>, n |-> n, items |-> <<>>]
JObj(items) == [t |-> "obj", s |-> <<>>, n |-> 0, items |-> items]

\* the keys of an object, and d[k], k in d, d[k] = v, del d[k]
OKeys(items) == {items[i][1] : i \in DOMAIN items}
OGet(items, k) == items[CHOOSE i \in DOMAIN items : items[i][1] = k][2]

\* d.setdefault(k, v): the first value stays
OPutKeep(items, k, v) ==
    IF k \in OKeys(items) THEN items ELSE Append(items, <<k, v>>)

OPut(items, k, v) ==
    IF k \in OKeys(items)
    THEN [i \in DOMAIN items |-> IF items[i][1] = k THEN <<k, v>> ELSE items[i]]
    ELSE Append(items, <<k, v>>)

ODel(items, k) == SelectSeq(items, LAMBDA e : e[1] # k)

DigitChars == <<"0", "1", "2", "3", "4", "5", "6", "7", "8", "9">>

\* str(n) for n >= 0
RECURSIVE DigitsOf(_)
DigitsOf(n) ==
    IF n < 10 THEN <<DigitChars[n + 1]>>
    ELSE DigitsOf(n \div 10) \o <<DigitChars[(n % 10) + 1]>>

DigitValue(c) == (CHOOSE i \in 1..10 : DigitChars[i] = c) - 1

\* the encoder's escapes with ensure_ascii=False
EscapeChar(c) ==
    IF c = QUOTE THEN <<BACKSLASH, QUOTE>>
    ELSE IF c = BACKSLASH THEN <<BACKSLASH, BACKSLASH>>
    ELSE IF c = NL THEN <<BACKSLASH, "n">>
    ELSE <<c>>

RECURSIVE Escape(_)
Escape(s) == IF s = <<>> THEN <<>> ELSE EscapeChar(Head(s)) \o Escape(Tail(s))

\* a string literal without the escapes
EncodeStrRaw(s) == <<QUOTE>> \o s \o <<QUOTE>>

EncodeStr(s) == <<QUOTE>> \o Escape(s) \o <<QUOTE>>

Indent(level) == [i \in 1..(2 * level) |-> SP]

\* json.dumps(v, ensure_ascii=False, indent=2) at nesting depth level;
\* a number is a float with an integral value (repr gives "105.0")
RECURSIVE JsonDumpAt(_, _)
JsonDumpAt(v, level) ==
    IF v.t = "str" THEN EncodeStr(v.s)
    ELSE IF v.t = "num" THEN DigitsOf(v.n) \o <<".", "0">>
    ELSE IF v.items = <<>> THEN <<"{", "}">>
    ELSE LET member(i) ==
                 Indent(level + 1) \o EncodeStr(v.items[i][1]) \o <<":", SP>>
                 \o JsonDumpAt(v.items[i][2], level + 1)
         IN <<"{", NL>>
            \o Join([i \in DOMAIN v.items |-> member(i)], <<",", NL>>)
            \o <<NL>> \o Indent(level) \o <<"}">>

JsonDump(v) == JsonDumpAt(v, 0)

ParseError == [ok |-> FALSE, v |-> JNum(0), next |-> 0]

Parsed(v, next) == [ok |-> TRUE, v |-> v, next |-> next]

RECURSIVE SkipWs(_, _)
SkipWs(txt, i) == IF i <= Len(txt) /\ IsSpace(txt[i]) THEN SkipWs(txt, i + 1) ELSE i

\* the body of a string literal from position i to the closing quote
RECURSIVE ScanStr(_, _, _)
ScanStr(txt, i, acc) ==
    IF i > Len(txt) \/ txt[i] = NL THEN ParseError
    ELSE IF txt[i] = QUOTE THEN Parsed(JStr(acc), i + 1)
    ELSE IF txt[i] # BACKSLASH THEN ScanStr(txt, i + 1, Append(acc, txt[i]))
    ELSE IF i + 1 > Len(txt) THEN ParseError
    ELSE IF txt[i + 1] = "n" THEN ScanStr(txt, i + 2, Append(acc, NL))
    ELSE IF txt[i + 1] \in {QUOTE, BACKSLASH} THEN ScanStr(txt, i + 2, Append(acc, txt[i + 1]))
    ELSE ParseError

\* a run of digits from position i: <<value, next>>
RECURSIVE ScanDigits(_, _, _)
ScanDigits(txt, i, acc) ==
    IF i <= Len(txt) /\ IsDigit(txt[i])
    THEN ScanDigits(txt, i + 1, 10 * acc + DigitValue(txt[i]))
    ELSE <<acc, i>>

\* a number: digits, optionally followed by ".0"
ScanNum(txt, i) ==
    With(ScanDigits(txt, i, 0), LAMBDA d :
        IF d[2] + 1 <= Len(txt) /\ txt[d[2]] = "." /\ txt[d[2] + 1] = "0"
           /\ ~(d[2] + 2 <= Len(txt) /\ IsDigit(txt[d[2] + 2]))
        THEN Parsed(JNum(d[1]), d[2] + 2)
        ELSE IF d[2] <= Len(txt) /\ txt[d[2]] = "." THEN ParseError
        ELSE Parsed(JNum(d[1]), d[2]))

RECURSIVE ParseValue(_, _)
RECURSIVE ParseMembers(_, _, _)

\* the members of an object from position i, after "{" or ","
ParseMembers(txt, i, items) ==
    With(SkipWs(txt, i), LAMBDA j :
        IF j > Len(txt) \/ txt[j] # QUOTE THEN ParseError
        ELSE With(ScanStr(txt, j + 1, <<>>), LAMBDA k :
            IF ~k.ok THEN ParseError
            ELSE With(SkipWs(txt, k.next), LAMBDA c :
                IF c > Len(txt) \/ txt[c] # ":" THEN ParseError
                ELSE With(ParseValue(txt, c + 1), LAMBDA v :
                    IF ~v.ok THEN ParseError
                    ELSE With(SkipWs(txt, v.next), LAMBDA e :
                        IF e > Len(txt) THEN ParseError
                        ELSE IF txt[e] = "," THEN ParseMembers(txt, e + 1, OPut(items, k.v.s, v.v))
                        ELSE IF txt[e] = "}" THEN Parsed(JObj(OPut(items, k.v.s, v.v)), e + 1)
                        ELSE ParseError)))))

ParseValue(txt, i) ==
    With(SkipWs(txt, i), LAMBDA j :
        IF j > Len(txt) THEN ParseError
        ELSE IF txt[j] = QUOTE THEN ScanStr(txt, j + 1, <<>>)
        ELSE IF IsDigit(txt[j]) THEN ScanNum(txt, j)
        ELSE IF txt[j] # "{" THEN ParseError
        ELSE With(SkipWs(txt, j + 1), LAMBDA m :
            IF m <= Len(txt) /\ txt[m] = "}" THEN Parsed(JObj(<<>>), m + 1)
            ELSE ParseMembers(txt, j + 1, <<>>)))

\* json.loads(txt): ok is FALSE where json raises JSONDecodeError
JsonLoad(txt) ==
    With(ParseValue(txt, 1), LAMBDA r :
        IF r.ok /\ SkipWs(txt, r.next) > Len(txt) THEN r ELSE ParseError)


----------------------------------------------------------------------------
(* The transcription job of main(): the chunks are submitted to a thread   *)
(* pool, main collects the futures as they complete and then merges.       *)

MaxJobChunks == 3
MaxWorkers == 2

FAILED_MARKER == <<"[", "-", "-", "-", " ", "T", "R", "A", "N", "S", "C", "R", "I", "P", "T", "I", "O", "N", " ", "F", "A", "I", "L", "E", "D", " ", "F", "O", "R", " ", "T", "H", "I", "S", " ", "S", "E", "G", "M", "E", "N", "T", " ", "-", "-", "-", "]">>

\* the text the ASR returns for chunk i when it succeeds
ChunkText(i) == <<"c", <<"0", "1", "2", "3", "4", "5", "6", "7", "8", "9">>[i + 1]>>

Submitted == [state |-> "pending", outcome |-> "none"]

\* future.result(): the returned text; transcribe_chunk returns "" after its
\* retries are used up
ResultOf(i, outcome) == IF outcome = "text" THEN ChunkText(i) ELSE <<>>

Running == {i \in DOMAIN futures : futures[i].state = "running"}
Pending == {i \in DOMAIN futures : futures[i].state = "pending"}
Collected == {results[k][1] : k \in DOMAIN results}

\* a free worker thread takes the oldest queued task
WorkerStart ==
    /\ comp = "job"
    /\ Pending # {}
    /\ Cardinality(Running) < MaxWorkers
    /\ LET i == CHOOSE x \in Pending : \A y \in Pending : x <= y
       IN futures' = [futures EXCEPT ![i].state = "running"]
    /\ UNCHANGED <<results, final_transcripts, merge_calls, jpc>>
    /\ UNCHANGED <<comp, dedupVars, resolverVars, mergeVars, storeVars, limiterVars, keyVars, asr, ck>>

\* transcribe_chunk returns a text, returns "" or lets an exception escape
WorkerFinish ==
    /\ comp = "job"
    /\ \E i \in Running, outcome \in {"text", "empty", "raised"} :
         futures' = [futures EXCEPT ![i] = [state |-> "finished", outcome |-> outcome]]
    /\ UNCHANGED <<results, final_transcripts, merge_calls, jpc>>
    /\ UNCHANGED <<comp, dedupVars, resolverVars, mergeVars, storeVars, limiterVars, keyVars, asr, ck>>

\* one iteration of the loop over as_completed(futures): results[idx] is the
\* future's result, or "" when the future raised
Collect ==
    /\ comp = "job"
    /\ jpc = "collect"
    /\ \E i \in DOMAIN futures :
         /\ futures[i].state = "finished"
         /\ i \notin Collected
         /\ results' = Append(results, <<i, ResultOf(i, futures[i].outcome)>>)
    /\ UNCHANGED <<futures, final_transcripts, merge_calls, jpc>>
    /\ UNCHANGED <<comp, dedupVars, resolverVars, mergeVars, storeVars, limiterVars, keyVars, asr, ck>>

\* KeyboardInterrupt inside the loop: the queued tasks are cancelled and the
\* process exits
Interrupt ==
    /\ comp = "job"
    /\ jpc = "collect"
    /\ futures' = [i \in DOMAIN futures |->
                     IF futures[i].state = "pending"
                     THEN [state |-> "cancelled", outcome |-> "none"]
                     ELSE futures[i]]
    /\ jpc' = "exit"
    /\ UNCHANGED <<results, final_transcripts, merge_calls>>
    /\ UNCHANGED <<comp, dedupVars, resolverVars, mergeVars, storeVars, limiterVars, keyVars, asr, ck>>

\* the keys of results in insertion order
InsertionOrder(res) == [k \in DOMAIN res |-> res[k][1]]

\* sorted(results.keys())
SortedKeys(res) ==
    [k \in DOMAIN res |->
        CHOOSE i \in {res[m][1] : m \in DOMAIN res} :
            Cardinality({j \in {res[m][1] : m \in DOMAIN res} : j < i}) = k - 1]

\* results.get(chunk_index, "")
Get(res, i) ==
    IF \E k \in DOMAIN res : res[k][1] = i
    THEN res[CHOOSE k \in DOMAIN res : res[k][1] = i][2]
    ELSE <<>>

\* text if text else the failure marker
TextOrMarker(t) == IF t # <<>> THEN t ELSE FAILED_MARKER

\* the loop over as_completed has ended; final_transcripts is built from the
\* sorted keys
Assemble ==
    /\ comp = "job"
    /\ jpc = "collect"
    /\ Collected = DOMAIN futures
    /\ final_transcripts' =
         LET keys == SortedKeys(results)
         IN [k \in DOMAIN keys |-> TextOrMarker(Get(results, keys[k]))]
    /\ jpc' = "merge"
    /\ UNCHANGED <<futures, results, merge_calls>>
    /\ UNCHANGED <<comp, dedupVars, resolverVars, mergeVars, storeVars, limiterVars, keyVars, asr, ck>>

\* raw_text = merge_transcriptions(final_transcripts)
CallMerge ==
    /\ comp = "job"
    /\ jpc = "merge"
    /\ transcripts' = final_transcripts
    /\ mpc' = "start"
    /\ merge_calls' = merge_calls + 1
    /\ jpc' = "merged"
    /\ UNCHANGED <<futures, results, final_transcripts>>
    /\ UNCHANGED <<chunk_index, full_text, mlog>>
    /\ UNCHANGED <<comp, dedupVars, resolverVars, storeVars, limiterVars, keyVars, asr, ck>>

----------------------------------------------------------------------------
(* The persisted stores: the alias cache file of SmartMarketResolver and   *)
(* the market data cache file of MarketDataCache.  store_file is the file  *)
(* as text; loaded is the instance's in-memory dict (self.memory over an   *)
(* empty knowledge base, self.cache), in insertion order.                  *)

MaxThreads == 2
MaxSaves == 3

NoFile == [exists |-> FALSE, content |-> <<>>]

FileOf(content) == [exists |-> TRUE, content |-> content]

\* what the load in the try block yields: the object in the file, or nothing
\* when the file is absent or json.load raises
ReadStore(file) ==
    IF ~file.exists THEN <<>>
    ELSE With(JsonLoad(file.content), LAMBDA r :
             IF r.ok /\ r.v.t = "obj" THEN r.v.items ELSE <<>>)

Unparseable(file) == file.exists /\ ~JsonLoad(file.content).ok

\* the mentions and tickers save_cache is called with
AliasMentions == { <<"A", "O", "T">>, <<"a", "\"", "b">> }
AliasTickers == {AOT_BK, KBANK_BK}

IdleSaver == [pc |-> "idle", mention |-> <<>>, ticker |-> <<>>, new_data |-> <<>>]

\* save_cache(mention, ticker), up to the end of the try block: new_data is
\* what the file holds now
SaveCacheLoad ==
    /\ comp = "alias"
    /\ \E t \in DOMAIN savers, mention \in AliasMentions, ticker \in AliasTickers :
         /\ savers[t].pc = "idle"
         /\ Cardinality({u \in DOMAIN savers : savers[u].pc # "idle"}) + Len(written) < MaxSaves
         /\ savers' = [savers EXCEPT ![t] =
                [pc |-> "loaded", mention |-> mention, ticker |-> ticker,
                 new_data |-> ReadStore(store_file)]]
    /\ UNCHANGED <<store_file, loaded, written, now, mlast>>
    /\ UNCHANGED <<comp, dedupVars, resolverVars, mergeVars, jobVars, limiterVars, keyVars, asr, ck>>

\* save_cache: new_data[mention.lower()] = ticker and open(cache_file, "w"),
\* which truncates the file
SaveCacheOpen ==
    /\ comp = "alias"
    /\ \E t \in DOMAIN savers :
         /\ savers[t].pc = "loaded"
         /\ savers' = [savers EXCEPT ![t].pc = "open",
                          ![t].new_data = OPut(savers[t].new_data, Lower(savers[t].mention),
                                               JStr(savers[t].ticker))]
    /\ store_file' = FileOf(<<>>)
    /\ UNCHANGED <<loaded, written, now, mlast>>
    /\ UNCHANGED <<comp, dedupVars, resolverVars, mergeVars, jobVars, limiterVars, keyVars, asr, ck>>

\* what the file holds after txt is written at offset 0 of a file that holds
\* content: bytes another handle wrote beyond the end of txt stay
WriteAtStart(txt, content) ==
    IF Len(content) > Len(txt) THEN txt \o SubSeq(content, Len(txt) + 1, Len(content)) ELSE txt

\* save_cache, the rest: json.dump reaches the file when the with block closes
\* it, then the key is set in memory
SaveCacheStore ==
    /\ comp = "alias"
    /\ \E t \in DOMAIN savers :
         /\ savers[t].pc = "open"
         /\ store_file' = FileOf(WriteAtStart(JsonDump(JObj(savers[t].new_data)),
                                              store_file.content))
         /\ loaded' = OPut(loaded, Lower(savers[t].mention), JStr(savers[t].ticker))
         /\ written' = Append(written, <<Lower(savers[t].mention), savers[t].ticker>>)
         /\ savers' = [savers EXCEPT ![t] = IdleSaver]
    /\ UNCHANGED <<now, mlast>>
    /\ UNCHANGED <<comp, dedupVars, resolverVars, mergeVars, jobVars, limiterVars, keyVars, asr, ck>>

\* SmartMarketResolver.__init__ over the same cache file
NewAliasInstance ==
    /\ comp = "alias"
    /\ \A t \in DOMAIN savers : savers[t].pc = "idle"
    /\ loaded' = ReadStore(store_file)
    /\ mlast' = [mlast EXCEPT !.op = "new"]
    /\ UNCHANGED <<store_file, savers, written, now>>
    /\ UNCHANGED <<comp, dedupVars, resolverVars, mergeVars, jobVars, limiterVars, keyVars, asr, ck>>

\* MarketDataCache and its users.  Time is in seconds; an instant is written
\* to the file as its number of seconds.

ttl_hours == 24
ttl_seconds == ttl_hours * 3600
tolerance == 20

TickSeconds == 43200
MaxClock == 129600

K_DATA == <<"d", "a", "t", "a">>
K_TIMESTAMP == <<"t", "i", "m", "e", "s", "t", "a", "m", "p">>
K_LOW == <<"l", "o", "w">>
K_HIGH == <<"h", "i", "g", "h">>
K_CLOSE == <<"c", "l", "o", "s", "e">>
K_MARKET_PRICE == <<"m", "a", "r", "k", "e", "t", "_", "p", "r", "i", "c", "e">>
K_PRICE_RANGE == <<"p", "r", "i", "c", "e", "_", "r", "a", "n", "g", "e">>

JNone == [t |-> "none", s |-> <<>>, n |-> 0, items |-> <<>>]

\* datetime.isoformat() and datetime.fromisoformat()
IsoFormat(t) == DigitsOf(t)
FromIsoFormat(s) == ScanDigits(s, 1, 0)[1]

\* _generate_key
generate_key(ticker, date) == ticker \o <<"_">> \o date

\* the entry set() stores
Entry(data, at) == JObj(<< <<K_DATA, data>>, <<K_TIMESTAMP, JStr(IsoFormat(at))>> >>)

\* _is_expired at the instant at
is_expired_late(entry, at) ==
    IF K_TIMESTAMP \notin OKeys(entry.items) THEN TRUE
    ELSE at - FromIsoFormat(OGet(entry.items, K_TIMESTAMP).s) > 2 * ttl_seconds

is_expired(entry, at) ==
    IF K_TIMESTAMP \notin OKeys(entry.items) THEN TRUE
    ELSE at - FromIsoFormat(OGet(entry.items, K_TIMESTAMP).s) > ttl_seconds

\* _save_cache
SaveStore(cache) == FileOf(JsonDump(JObj(cache)))

\* get(ticker, date) at the instant at: the value returned, the cache and the
\* file afterwards
CacheGetMiss(cache, file, key, at) == [ret |-> JNone, cache |-> cache, file |-> file]

CacheGet(cache, file, key, at) ==
    IF key \notin OKeys(cache) THEN [ret |-> JNone, cache |-> cache, file |-> file]
    ELSE With(OGet(cache, key), LAMBDA entry :
        IF is_expired(entry, at)
        THEN [ret |-> JNone, cache |-> ODel(cache, key), file |-> SaveStore(ODel(cache, key))]
        ELSE [ret |-> IF K_DATA \in OKeys(entry.items) THEN OGet(entry.items, K_DATA) ELSE JNone,
              cache |-> cache, file |-> file])

\* set(ticker, date, data) at the instant at
CacheSet(cache, key, data, at) ==
    With(OPut(cache, key, Entry(data, at)), LAMBDA c : [cache |-> c, file |-> SaveStore(c)])

\* bool(v) for the value get returned
Truthy(v) == (v.t = "obj" /\ v.items # <<>>) \/ (v.t = "str" /\ v.s # <<>>) \/ (v.t = "num" /\ v.n # 0)

\* the dict market_validator_node stores, and the range of the fact checker
Quote(price, low, high) ==
    JObj(<< <<K_MARKET_PRICE, JNum(price)>>,
            <<K_PRICE_RANGE, JObj(<< <<K_LOW, JNum(low)>>, <<K_HIGH, JNum(high)>> >>)>> >>)

DayRange(low, high, close) ==
    JObj(<< <<K_LOW, JNum(low)>>, <<K_HIGH, JNum(high)>>, <<K_CLOSE, JNum(close)>> >>)

MarketTickers == { <<"A", "O", "T">>, <<"P", "T", "T">> }
MarketDate == <<"2", "0", "2", "5", "-", "1", "2", "-", "2", "4">>
ProviderData == {Quote(105, 100, 110)}
StoredData == ProviderData \cup {DayRange(100, 110, 105)}
Prices == {105, 120, 200}

NoStoreCall == [op |-> "none", key |-> <<>>, at |-> 0, before |-> JNone, ret |-> JNone,
                live |-> FALSE, price |-> 0, plausible |-> "None", confidence |-> "none"]

\* the clock advances
Tick ==
    /\ comp = "market"
    /\ now + TickSeconds <= MaxClock
    /\ now' = now + TickSeconds
    /\ UNCHANGED <<store_file, loaded, savers, written, mlast>>
    /\ UNCHANGED <<comp, dedupVars, resolverVars, mergeVars, jobVars, limiterVars, keyVars, asr, ck>>

EntryOf(cache, key) == IF key \in OKeys(cache) THEN OGet(cache, key) ELSE JNone

\* MarketDataCache.get(ticker, date)
MarketGet ==
    /\ comp = "market"
    /\ \E ticker \in MarketTickers :
         \E key \in {generate_key(ticker, MarketDate)} :
         \E r \in {CacheGet(loaded, store_file, key, now)} :
            /\ loaded' = r.cache
            /\ store_file' = r.file
            /\ mlast' = [NoStoreCall EXCEPT !.op = "get", !.key = key, !.at = now,
                            !.before = EntryOf(loaded, key), !.ret = r.ret]
    /\ UNCHANGED <<savers, written, now>>
    /\ UNCHANGED <<comp, dedupVars, resolverVars, mergeVars, jobVars, limiterVars, keyVars, asr, ck>>

\* MarketDataCache.set(ticker, date, data)
MarketSet ==
    /\ comp = "market"
    /\ \E ticker \in MarketTickers, data \in StoredData :
         \E key \in {generate_key(ticker, MarketDate)} :
         \E r \in {CacheSet(loaded, key, data, now)} :
            /\ loaded' = r.cache
            /\ store_file' = r.file
            /\ mlast' = [NoStoreCall EXCEPT !.op = "set", !.key = key, !.at = now,
                            !.before = EntryOf(loaded, key), !.ret = data]
    /\ UNCHANGED <<savers, written, now>>
    /\ UNCHANGED <<comp, dedupVars, resolverVars, mergeVars, jobVars, limiterVars, keyVars, asr, ck>>

\* MarketDataCache.__init__ in a new process: _load_cache
NewMarketInstance ==
    /\ comp = "market"
    /\ loaded' = ReadStore(store_file)
    /\ mlast' = [NoStoreCall EXCEPT !.op = "new", !.at = now]
    /\ UNCHANGED <<store_file, savers, written, now>>
    /\ UNCHANGED <<comp, dedupVars, resolverVars, mergeVars, jobVars, limiterVars, keyVars, asr, ck>>

\* market_validator_node, step 2 for one entity: the cache first, the provider
\* (yfinance history, which may be empty) only without cached data
ValidatorLookup ==
    /\ comp = "market"
    /\ \E ticker \in MarketTickers :
         \E key \in {generate_key(ticker, MarketDate)} :
         \E g \in {CacheGet(loaded, store_file, key, now)} :
            IF Truthy(g.ret)
            THEN /\ loaded' = g.cache
                 /\ store_file' = g.file
                 /\ mlast' = [NoStoreCall EXCEPT !.op = "lookup", !.key = key, !.at = now,
                                 !.before = EntryOf(loaded, key), !.ret = g.ret]
            ELSE \E hist \in ProviderData \cup {JNone} :
                 \E r \in {IF hist = JNone THEN [cache |-> g.cache, file |-> g.file]
                           ELSE CacheSet(g.cache, key, hist, now)} :
                    /\ loaded' = r.cache
                    /\ store_file' = r.file
                    /\ mlast' = [NoStoreCall EXCEPT !.op = "lookup", !.key = key, !.at = now,
                                    !.before = EntryOf(loaded, key), !.ret = hist,
                                    !.live = TRUE]
    /\ UNCHANGED <<savers, written, now>>
    /\ UNCHANGED <<comp, dedupVars, resolverVars, mergeVars, jobVars, limiterVars, keyVars, asr, ck>>

\* what CleanFactChecker.__init__ binds self.market_cache to: the
\* MarketDataCache singleton, whose dict is its attribute cache
MarketCacheObject(cache) == [kind |-> "MarketDataCache", items |-> cache]

\* `key in obj` and obj[key] need __contains__/__iter__/__getitem__: a dict has
\* them, MarketDataCache defines none
SupportsIn(kind) == kind = "dict"

Verdict(plausible, confidence) == [plausible |-> plausible, confidence |-> confidence]

\* validate_against_market from line 246 on, for the cached range
Classify(cached, price) ==
    IF ~({K_LOW, K_HIGH} \subseteq OKeys(cached.items)) THEN Verdict("None", "none")
    ELSE IF OGet(cached.items, K_LOW).n <= price /\ price <= OGet(cached.items, K_HIGH).n
    THEN IF K_CLOSE \in OKeys(cached.items) THEN Verdict("True", "high") ELSE Verdict("None", "none")
    ELSE IF K_CLOSE \notin OKeys(cached.items) THEN Verdict("None", "none")
    ELSE With(OGet(cached.items, K_CLOSE).n, LAMBDA close :
        IF close = 0 THEN Verdict("None", "none")
        ELSE With(IF price >= close THEN price - close ELSE close - price, LAMBDA dev :
            IF dev * 100 < tolerance * close
            THEN Verdict("True", "medium") ELSE Verdict("False", "low")))

\* validate_against_market(ticker, price, recording_date); every exception
\* ends in plausible None.  The branch that fetches from the provider also
\* assigns market_cache[cache_key] and is reached only past the `in` test.
validate_against_market(market_cache, ticker, price, recording_date) ==
    With(generate_key(ticker, recording_date), LAMBDA cache_key :
        IF ~SupportsIn(market_cache.kind) THEN Verdict("None", "none")
        ELSE IF cache_key \in OKeys(market_cache.items)
        THEN Classify(OGet(market_cache.items, cache_key), price)
        ELSE Verdict("None", "none"))

\* CleanFactChecker.validate_against_market on the process's market cache
ValidateAgainstMarket ==
    /\ comp = "market"
    /\ \E ticker \in MarketTickers, price \in Prices :
         \E v \in {validate_against_market(MarketCacheObject(loaded), ticker, price, MarketDate)} :
            mlast' = [NoStoreCall EXCEPT !.op = "validate",
                         !.key = generate_key(ticker, MarketDate), !.at = now,
                         !.before = EntryOf(loaded, generate_key(ticker, MarketDate)),
                         !.price = price, !.plausible = v.plausible,
                         !.confidence = v.confidence]
    /\ UNCHANGED <<store_file, loaded, savers, written, now>>
    /\ UNCHANGED <<comp, dedupVars, resolverVars, mergeVars, jobVars, limiterVars, keyVars, asr, ck>>

----------------------------------------------------------------------------
(* key_rotation: the module's key list and its two globals.                *)

MaxKeys == 4
MaxRotations == 10

\* GEMINI_API_KEYS after the empty entries are filtered out
KeyList(n) == [i \in 1..n |-> <<"k", DigitChars[i + 1]>>]

\* the module's state right after import
FreshKeys(n) ==
    [GEMINI_API_KEYS |-> KeyList(n), current_key_index |-> 0, keys_tried_this_session |-> {}]

NoKeys == FreshKeys(0)

NoKeyLog == [start |-> <<>>, since |-> <<>>, calls |-> 0]

\* get_current_key; with no key configured it raises ValueError
get_current_key(kr) ==
    IF kr.GEMINI_API_KEYS = <<>> THEN <<"V", "a", "l", "u", "e", "E", "r", "r", "o", "r">>
    ELSE kr.GEMINI_API_KEYS[kr.current_key_index + 1]

\* "have we tried ALL keys"
AllTriedLate(tried, keys) == Cardinality(tried) > Len(keys)

AllTried(tried, keys) == Cardinality(tried) >= Len(keys)

\* rotate_key: the state it leaves and the value it returns
rotate_key(kr) ==
    IF Len(kr.GEMINI_API_KEYS) <= 1
    THEN [kr |-> kr, ret |-> FALSE]
    ELSE With((kr.current_key_index + 1) % Len(kr.GEMINI_API_KEYS), LAMBDA idx :
         With(kr.keys_tried_this_session \cup {idx}, LAMBDA tried :
           IF AllTried(tried, kr.GEMINI_API_KEYS)
           THEN [kr |-> [kr EXCEPT !.current_key_index = idx, !.keys_tried_this_session = {}],
                 ret |-> FALSE]
           ELSE [kr |-> [kr EXCEPT !.current_key_index = idx, !.keys_tried_this_session = tried],
                 ret |-> TRUE]))

\* reset_rotation
reset_rotation(kr) == [kr EXCEPT !.current_key_index = 0, !.keys_tried_this_session = {}]

\* the rotate_key calls since the tried set was last empty on purpose (import,
\* reset_rotation, or a call that found every key tried), with the key that
\* was current at that point
Exhausted(log) == log.since # <<>> /\ ~log.since[Len(log.since)].ret

LogRotation(log, kr, rot) ==
    With(IF Exhausted(log) THEN [log EXCEPT !.start = get_current_key(kr), !.since = <<>>] ELSE
         IF log.since = <<>> THEN [log EXCEPT !.start = get_current_key(kr)] ELSE log,
         LAMBDA base :
            [base EXCEPT !.since = Append(base.since, [ret |-> rot.ret, key |-> get_current_key(rot.kr),
                                                       tried |-> rot.kr.keys_tried_this_session]),
                         !.calls = log.calls + 1])

\* a caller invokes rotate_key()
RotateKey ==
    /\ comp = "keys"
    /\ klog.calls < MaxRotations
    /\ \E rot \in {rotate_key(key_rotation)} :
          /\ key_rotation' = rot.kr
          /\ klog' = LogRotation(klog, key_rotation, rot)
    /\ UNCHANGED <<limiterVars, asr>>
    /\ UNCHANGED <<comp, dedupVars, resolverVars, mergeVars, jobVars, storeVars, ck>>

\* a caller invokes reset_rotation()
ResetRotation ==
    /\ comp = "keys"
    /\ klog.calls < MaxRotations
    /\ key_rotation' = reset_rotation(key_rotation)
    /\ klog' = [klog EXCEPT !.start = get_current_key(key_rotation'), !.since = <<>>,
                            !.calls = klog.calls + 1]
    /\ UNCHANGED <<limiterVars, asr>>
    /\ UNCHANGED <<comp, dedupVars, resolverVars, mergeVars, jobVars, storeVars, ck>>

----------------------------------------------------------------------------
(* transcribe_chunk: up to five calls of the ASR API.                      *)

ASR_ATTEMPTS == 5

NoTranscription == [pc |-> "idle", attempt |-> 0, calls |-> 0, text |-> <<>>]

\* the for loop is over after the iteration with this attempt number
LoopEndsLate(attempt, cap) == attempt >= cap

LoopEnds(attempt, cap) == attempt + 1 >= cap

\* client.audio.transcriptions.create returns: response.text is returned
TranscribeReturns ==
    /\ comp = "asr"
    /\ asr.pc = "create"
    /\ asr' = [asr EXCEPT !.pc = "returned", !.calls = asr.calls + 1, !.text = ChunkText(1)]
    /\ UNCHANGED <<limiterVars, keyVars>>
    /\ UNCHANGED <<comp, dedupVars, resolverVars, mergeVars, jobVars, storeVars, ck>>

\* the call raises: after the backoff sleep the loop goes on, and after the
\* last iteration the function returns ""
TranscribeRaises ==
    /\ comp = "asr"
    /\ asr.pc = "create"
    /\ asr' = IF LoopEnds(asr.attempt, ASR_ATTEMPTS)
              THEN [asr EXCEPT !.pc = "returned", !.calls = asr.calls + 1, !.text = <<>>]
              ELSE [asr EXCEPT !.attempt = asr.attempt + 1, !.calls = asr.calls + 1]
    /\ UNCHANGED <<limiterVars, keyVars>>
    /\ UNCHANGED <<comp, dedupVars, resolverVars, mergeVars, jobVars, storeVars, ck>>

----------------------------------------------------------------------------
(* process_large_text_robust with a RateLimiter: the chunks are processed  *)
(* in order, each through the budget check and the retry loop.             *)

MaxLlmChunks == 4
MaxBudget == 3
MaxRetries == 3

MAX_RETRIES == 1

\* the input chunk i (1-based) and the text the chain returns for it
InputChunk(i) == <<"i", DigitChars[i + 1]>>
LlmOutput(i) == <<"o", DigitChars[i + 1]>>

NoPosition == [pc |-> "idle", chunk_index |-> 0, attempt |-> 0, start |-> 0, out |-> <<>>]

\* a chain: the prompt piped into an LLM client that holds the api_key it was
\* constructed with
Chain(api_key) == [api_key |-> api_key]

NoChain == Chain(<<>>)

NoInvoke == [chunk_index |-> 0, attempt |-> 0, api_key |-> <<>>, current_key |-> <<>>,
             rotated |-> FALSE]

\* create_llm() | prompt | parser: the client is built with get_current_key()
create_llm(kr) == Chain(get_current_key(kr))

\* RateLimiter.can_make_request
can_make_request_always(rl) == TRUE

can_make_request(rl) == ~(rl.request_count >= rl.max_requests)

\* RateLimiter.record_request
record_request(rl) == [rl EXCEPT !.request_count = rl.request_count + 1]

\* chain.invoke(input_args) on the function's chain argument: the call made,
\* with the key current in key_rotation at that moment
Invoke == [chunk_index |-> lpos.chunk_index, attempt |-> lpos.attempt,
           api_key |-> chain.api_key, current_key |-> get_current_key(key_rotation),
           rotated |-> ilog.rotated]

\* the budget check at the head of the loop body finds the budget exhausted:
\* the original text is kept
SkipChunk ==
    /\ comp = "llm"
    /\ lpos.pc = "check"
    /\ lpos.chunk_index < Len(chunks)
    /\ ~can_make_request(rate_limiter)
    /\ processed_parts' = Append(processed_parts, chunks[lpos.chunk_index + 1])
    /\ lpos' = [lpos EXCEPT !.chunk_index = lpos.chunk_index + 1]
    /\ llog' = Append(llog, [start |-> rate_limiter.request_count, calls |-> 0, how |-> "skipped"])
    /\ UNCHANGED <<chunks, rate_limiter, max_retries, chain, correction_chain, ilog>>
    /\ UNCHANGED <<keyVars, asr, ck>>
    /\ UNCHANGED <<comp, dedupVars, resolverVars, mergeVars, jobVars, storeVars, ck>>

\* the budget check passes: the retry loop starts
EnterRetries ==
    /\ comp = "llm"
    /\ lpos.pc = "check"
    /\ lpos.chunk_index < Len(chunks)
    /\ can_make_request(rate_limiter)
    /\ lpos' = [lpos EXCEPT !.pc = "retry", !.attempt = 0, !.start = rate_limiter.request_count]
    /\ ilog' = [ilog EXCEPT !.rotated = FALSE]
    /\ UNCHANGED <<chunks, processed_parts, rate_limiter, llog, max_retries, chain, correction_chain>>
    /\ UNCHANGED <<keyVars, asr, ck>>
    /\ UNCHANGED <<comp, dedupVars, resolverVars, mergeVars, jobVars, storeVars, ck>>

\* one attempt: the request is recorded and chain.invoke returns
InvokeSucceeds ==
    /\ comp = "llm"
    /\ lpos.pc = "retry"
    /\ rate_limiter' = record_request(rate_limiter)
    /\ ilog' = Invoke
    /\ processed_parts' = Append(processed_parts, LlmOutput(lpos.chunk_index + 1))
    /\ lpos' = [lpos EXCEPT !.pc = "check", !.chunk_index = lpos.chunk_index + 1, !.attempt = 0]
    /\ llog' = Append(llog, [start |-> lpos.start, calls |-> lpos.attempt + 1, how |-> "llm"])
    /\ UNCHANGED <<chunks, max_retries, chain, correction_chain>>
    /\ UNCHANGED <<keyVars, asr, ck>>
    /\ UNCHANGED <<comp, dedupVars, resolverVars, mergeVars, jobVars, storeVars, ck>>

\* the next iteration of the retry loop, or, after the last one, the
\* original text is kept
AfterFailure ==
    IF ~LoopEnds(lpos.attempt, max_retries)
    THEN /\ lpos' = [lpos EXCEPT !.attempt = lpos.attempt + 1]
         /\ UNCHANGED <<processed_parts, llog>>
    ELSE /\ processed_parts' = Append(processed_parts, chunks[lpos.chunk_index + 1])
         /\ lpos' = [lpos EXCEPT !.pc = "check", !.chunk_index = lpos.chunk_index + 1, !.attempt = 0]
         /\ llog' = Append(llog, [start |-> lpos.start, calls |-> lpos.attempt + 1, how |-> "failed"])

\* one attempt: the request is recorded and chain.invoke raises an error that
\* is not a quota error, or a quota error on which rotate_key() returns False:
\* the loop sleeps for the backoff delay
InvokeFails ==
    /\ comp = "llm"
    /\ lpos.pc = "retry"
    /\ rate_limiter' = record_request(rate_limiter)
    /\ \E is_quota_error \in BOOLEAN :
         IF is_quota_error
         THEN \E rot \in {rotate_key(key_rotation)} :
                 /\ ~rot.ret
                 /\ key_rotation' = rot.kr
                 /\ klog' = LogRotation(klog, key_rotation, rot)
         ELSE UNCHANGED keyVars
    /\ ilog' = [Invoke EXCEPT !.rotated = FALSE]
    /\ AfterFailure
    /\ UNCHANGED <<chunks, max_retries, chain, correction_chain, asr>>
    /\ UNCHANGED <<comp, dedupVars, resolverVars, mergeVars, jobVars, storeVars, ck>>

\* one attempt: the request is recorded, chain.invoke raises a quota error and
\* rotate_key() returns True: llm_prompts.llm and llm_prompts.correction_chain
\* are rebuilt and the loop continues at once
InvokeRotates ==
    /\ comp = "llm"
    /\ lpos.pc = "retry"
    /\ rate_limiter' = record_request(rate_limiter)
    /\ \E rot \in {rotate_key(key_rotation)} :
         /\ rot.ret
         /\ key_rotation' = rot.kr
         /\ klog' = LogRotation(klog, key_rotation, rot)
         /\ correction_chain' = create_llm(rot.kr)
    /\ ilog' = [Invoke EXCEPT !.rotated = TRUE]
    /\ AfterFailure
    /\ UNCHANGED <<chunks, max_retries, chain, asr>>
    /\ UNCHANGED <<comp, dedupVars, resolverVars, mergeVars, jobVars, storeVars, ck>>

\* return "\n\n".join(processed_parts)
ReturnJoined ==
    /\ comp = "llm"
    /\ lpos.pc = "check"
    /\ lpos.chunk_index = Len(chunks)
    /\ lpos' = [lpos EXCEPT !.pc = "returned", !.out = Join(processed_parts, <<NL, NL>>)]
    /\ UNCHANGED <<chunks, processed_parts, rate_limiter, llog, max_retries, chain, correction_chain, ilog>>
    /\ UNCHANGED <<keyVars, asr, ck>>
    /\ UNCHANGED <<comp, dedupVars, resolverVars, mergeVars, jobVars, storeVars, ck>>


----------------------------------------------------------------------------
(* The resolver variants with an external-lookup stage: the scripts        *)
(* Agentic_ASR_LLM_lang.py and ASR_LLM_Agentic_test.py.                    *)

PTT == <<"P", "T", "T">>
PTT_BK == <<"P", "T", "T", ".", "B", "K">>
SET_BK == <<"S", "E", "T", ".", "B", "K">>

\* what MarketTools.search_ticker may return: None, a candidate with the
\* suffix, a bare candidate, the index symbol
SearchResults == {NONE, PTT_BK, PTT, SET_BK}

\* the symbols yfinance may have a price history for
Listable == {PTT, PTT_BK, SET_BK}

\* the mentions resolve is called with: one of the knowledge base, two unknown
ExternalMentions == { <<"A", "O", "T">>, <<"p", "t", "t">>, <<" ", "P", "t", "t">> }

\* ContextManager.all_tickers: the clean tickers of the knowledge base
all_tickers == {RemoveAll(e[2], DotBK) : e \in MASTER_KB}

\* MarketTools.verify_ticker: yf.Ticker(ticker).history(...) is not empty
verify_ticker_always(ticker, listed, yf) == TRUE

verify_ticker(ticker, listed, yf) ==
    IF ~yf \/ ticker = <<>> THEN FALSE
    ELSE IF Contains(ticker, SET_BK) \/ Contains(ticker, <<"^">>) THEN FALSE
    ELSE ticker \in listed

\* resolve returned ret at this stage; saved tells whether save_cache ran
Resolved(stage, ret, mem, cf, saved) ==
    [stage |-> stage, ret |-> ret, memory |-> mem, cache_file |-> cf, saved |-> saved]

\* self.save_cache(mention_key, ticker); return ticker
SaveAndReturn(mem, cf, mention_key, ticker) ==
    Resolved("search", ticker, SaveCacheMemory(mem, mention_key, ticker),
             SaveCacheFile(cf, mention_key, ticker), TRUE)

\* Agentic_ASR_LLM_lang.py, SmartMarketResolver.resolve: found is what
\* search_ticker returns, listed what the market data knows during the call
resolve_lang(mem, cf, mention, found, listed, yf) ==
    With(Strip(Lower(mention)), LAMBDA mention_key :
    IF mention_key \in DOMAIN mem THEN Resolved("memory", mem[mention_key], mem, cf, FALSE)
    ELSE IF UpperStr(mention) \in all_tickers
    THEN Resolved("pattern", UpperStr(mention) \o DotBK, mem, cf, FALSE)
    ELSE IF found = NONE THEN Resolved("search", NONE, mem, cf, FALSE)
    ELSE With(Strip(UpperStr(found)), LAMBDA clean :
         IF ~Contains(clean, DotBK) /\ verify_ticker(clean \o DotBK, listed, yf)
         THEN SaveAndReturn(mem, cf, mention_key, clean \o DotBK)
         ELSE IF verify_ticker(clean, listed, yf)
         THEN SaveAndReturn(mem, cf, mention_key, clean)
         ELSE Resolved("search", NONE, mem, cf, FALSE)))

\* ASR_LLM_Agentic_test.py, SmartMarketResolver.resolve
resolve_test(mem, cf, mention, found, listed, yf) ==
    With(Strip(Lower(mention)), LAMBDA mention_key :
    IF mention_key \in DOMAIN mem THEN Resolved("memory", mem[mention_key], mem, cf, FALSE)
    ELSE IF found = NONE THEN Resolved("search", NONE, mem, cf, FALSE)
    ELSE With(Strip(UpperStr(found)), LAMBDA clean :
         IF verify_ticker(clean, listed, yf)
         THEN SaveAndReturn(mem, cf, mention_key, clean)
         ELSE IF ~Contains(clean, DotBK) /\ verify_ticker(clean \o DotBK, listed, yf)
         THEN SaveAndReturn(mem, cf, mention_key, clean \o DotBK)
         ELSE Resolved("search", NONE, mem, cf, FALSE)))

NoExternalCall ==
    [variant |-> "none", yf |-> FALSE, mention |-> NONE, found |-> NONE, listed |-> {},
     stage |-> "idle", ret |-> NONE, saved |-> FALSE,
     memory_before |-> EmptyDict, file_before |-> [kind |-> "absent", data |-> EmptyDict]]

\* the call and what it found, for the record
ExternalCall(r, mention, found, listed) ==
    [xr EXCEPT !.mention = mention, !.found = found, !.listed = listed,
               !.stage = r.stage, !.ret = r.ret, !.saved = r.saved,
               !.memory_before = memory, !.file_before = cache_file]

\* resolver.resolve(mention) in Agentic_ASR_LLM_lang.py
ResolveLang ==
    /\ comp = "external"
    /\ xr.variant = "lang"
    /\ \E mention \in ExternalMentions, found \in SearchResults, listed \in SUBSET Listable :
         \E r \in {resolve_lang(memory, cache_file, mention, found, listed, xr.yf)} :
            /\ memory' = r.memory
            /\ cache_file' = r.cache_file
            /\ xr' = ExternalCall(r, mention, found, listed)
    /\ UNCHANGED <<comp, fuzzy_corpus, process, added, rs, cx, fx>>
    /\ UNCHANGED <<dedupVars, mergeVars, serviceVars>>

\* resolver.resolve(mention) in ASR_LLM_Agentic_test.py
ResolveTest ==
    /\ comp = "external"
    /\ xr.variant = "test"
    /\ \E mention \in ExternalMentions, found \in SearchResults, listed \in SUBSET Listable :
         \E r \in {resolve_test(memory, cache_file, mention, found, listed, xr.yf)} :
            /\ memory' = r.memory
            /\ cache_file' = r.cache_file
            /\ xr' = ExternalCall(r, mention, found, listed)
    /\ UNCHANGED <<comp, fuzzy_corpus, process, added, rs, cx, fx>>
    /\ UNCHANGED <<dedupVars, mergeVars, serviceVars>>


----------------------------------------------------------------------------
(* main: the adaptive configuration and the audio chunking loop.           *)

\* the video durations, in seconds: around the chunk sizes and the tier limits
AudioDurations == {3, 16, 20, 35, 36, 900, 901, 2700, 2701}

\* get_adaptive_config(duration_sec)
get_adaptive_config(duration_sec) ==
    IF duration_sec <= 900
    THEN [CHUNK_DURATION |-> 20, OVERLAP_DURATION |-> 5, MAX_WORKERS |-> 10,
          TEXT_CHUNK_SIZE |-> 8000, MODE_NAME |-> "Tier 1"]
    ELSE IF duration_sec <= 2700
    THEN [CHUNK_DURATION |-> 25, OVERLAP_DURATION |-> 5, MAX_WORKERS |-> 5,
          TEXT_CHUNK_SIZE |-> 8000, MODE_NAME |-> "Tier 2"]
    ELSE [CHUNK_DURATION |-> 25, OVERLAP_DURATION |-> 5, MAX_WORKERS |-> 3,
          TEXT_CHUNK_SIZE |-> 12000, MODE_NAME |-> "Tier 3"]

chunk_ms(cfg) == cfg.CHUNK_DURATION * 1000

step(cfg) == chunk_ms(cfg) - (cfg.OVERLAP_DURATION * 1000)

Min(a, b) == IF a <= b THEN a ELSE b

NoChunking == [pc |-> "idle", duration_sec |-> 0, audio_len |-> 0, start_ms |-> 0, chunks |-> <<>>,
               adaptive_cfg |-> [CHUNK_DURATION |-> 0, OVERLAP_DURATION |-> 0, MAX_WORKERS |-> 0,
                                 TEXT_CHUNK_SIZE |-> 0, MODE_NAME |-> "none"]]

\* the state when the loop is entered, for an audio of duration_sec seconds
Chunking(duration_sec) ==
    [NoChunking EXCEPT !.pc = "chunking", !.duration_sec = duration_sec,
                       !.audio_len = duration_sec * 1000,
                       !.adaptive_cfg = get_adaptive_config(duration_sec)]

\* one iteration of for chunk_index, start_ms in enumerate(range(0, len(audio), step)):
\* the slice audio[start_ms : min(start_ms + chunk_ms, len(audio))] is exported
ExportChunk ==
    /\ comp = "chunking"
    /\ ck.pc = "chunking"
    /\ ck.start_ms < ck.audio_len
    /\ ck' = [ck EXCEPT
                !.chunks = Append(ck.chunks,
                              [index |-> Len(ck.chunks), start |-> ck.start_ms,
                               end |-> Min(ck.start_ms + chunk_ms(ck.adaptive_cfg), ck.audio_len)]),
                !.start_ms = ck.start_ms + step(ck.adaptive_cfg)]
    /\ UNCHANGED <<comp, dedupVars, resolverVars, mergeVars, otherServiceVars>>

\* the range is used up: the chunks go to the executor
ChunkingDone ==
    /\ comp = "chunking"
    /\ ck.pc = "chunking"
    /\ ck.start_ms >= ck.audio_len
    /\ ck' = [ck EXCEPT !.pc = "done"]
    /\ UNCHANGED <<comp, dedupVars, resolverVars, mergeVars, otherServiceVars>>


----------------------------------------------------------------------------
(* Specifications, one per component.                                      *)

Absent == [kind |-> "absent", data |-> EmptyDict]

IdleDedup ==
    /\ text = <<>>
    /\ max_removal_percent = 0
    /\ similarity_threshold = 0
    /\ dd = NoDedup

IdleResolver ==
    /\ fuzzy_corpus = EmptyDict
    /\ process = FALSE
    /\ memory = EmptyDict
    /\ cache_file = Absent
    /\ added = {}
    /\ rs = NoCall
    /\ cx = NoContextCall
    /\ xr = NoExternalCall
    /\ fx = NoFix

IdleMerge ==
    /\ transcripts = <<>>
    /\ chunk_index = 0
    /\ full_text = <<>>
    /\ mlog = <<>>
    /\ mpc = "idle"

IdleJob ==
    /\ futures = <<>>
    /\ results = <<>>
    /\ final_transcripts = <<>>
    /\ merge_calls = 0
    /\ jpc = "idle"

IdleStores ==
    /\ store_file = NoFile
    /\ loaded = <<>>
    /\ savers = <<>>
    /\ written = <<>>
    /\ now = 0
    /\ mlast = NoStoreCall

IdleLimiter ==
    /\ chunks = <<>>
    /\ processed_parts = <<>>
    /\ rate_limiter = [request_count |-> 0, max_requests |-> 0]
    /\ lpos = NoPosition
    /\ llog = <<>>
    /\ max_retries = MAX_RETRIES
    /\ chain = NoChain
    /\ correction_chain = NoChain
    /\ ilog = NoInvoke

IdleKeys ==
    /\ key_rotation = NoKeys
    /\ klog = NoKeyLog

IdleAsr == asr = NoTranscription

IdleChunking == ck = NoChunking

IdleServices == IdleJob /\ IdleStores /\ IdleLimiter /\ IdleKeys /\ IdleAsr /\ IdleChunking

InitDedup ==
    /\ comp = "dedup"
    /\ text \in DedupTexts
    /\ max_removal_percent \in Ceilings
    /\ similarity_threshold \in BoundaryThresholds
    /\ dd = NoDedup
    /\ IdleResolver
    /\ IdleMerge
    /\ IdleServices

NextDedup == SafeDeduplicate \/ RemoveDuplicates \/ RemoveChunkBoundaryDuplicates

SpecDedup == InitDedup /\ [][NextDedup]_vars

\* the alias cache file as a previous run may have left it
CacheFiles ==
    { Absent,
      [kind |-> "json", data |-> EmptyDict],
      [kind |-> "json", data |-> [k \in { <<"t", "i", "s", "-", "k", "o">> } |-> KBANK_BK]],
      [kind |-> "corrupt", data |-> EmptyDict] }

InitResolver ==
    /\ comp = "resolver"
    /\ fuzzy_corpus \in {LoadKB(MASTER_KB), EmptyDict}
    /\ process \in BOOLEAN
    /\ cache_file \in CacheFiles
    /\ memory = NewMemory(fuzzy_corpus, cache_file)
    /\ added = {}
    /\ rs = Constructed
    /\ cx = NoContextCall
    /\ xr = NoExternalCall
    /\ fx = NoFix
    /\ IdleDedup
    /\ IdleMerge
    /\ IdleServices

NextResolver == Resolve \/ NewResolver

SpecResolver == InitResolver /\ [][NextResolver]_vars

InitContext ==
    /\ comp = "context"
    /\ fuzzy_corpus \in {LoadKB(MASTER_KB), EmptyDict}
    /\ process \in BOOLEAN
    /\ cache_file \in CacheFiles
    /\ memory = NewMemory(fuzzy_corpus, cache_file)
    /\ added = {}
    /\ rs = Constructed
    /\ cx = NoContextCall
    /\ xr = NoExternalCall
    /\ fx = NoFix
    /\ IdleDedup
    /\ IdleMerge
    /\ IdleServices

NextContext == ResolveWithContext

SpecContext == InitContext /\ [][NextContext]_vars

InitMerge ==
    /\ comp = "merge"
    /\ \E ws \in MergeShapes :
         \E g \in [1..Weight(ws) -> SentencePool], sep \in [1..Len(ws) -> {NL, SP}] :
             transcripts = MergeInput(ws, g, sep)
    /\ chunk_index = 0
    /\ full_text = <<>>
    /\ mlog = <<>>
    /\ mpc = "start"
    /\ IdleDedup
    /\ IdleResolver
    /\ IdleServices

NextMerge == MergeStart \/ MergeChunk \/ MergeFinish

SpecMerge == InitMerge /\ [][NextMerge]_vars

InitJob ==
    /\ comp = "job"
    /\ \E n \in 1..MaxJobChunks : futures = [i \in 0..(n - 1) |-> Submitted]
    /\ results = <<>>
    /\ final_transcripts = <<>>
    /\ merge_calls = 0
    /\ jpc = "collect"
    /\ IdleDedup
    /\ IdleResolver
    /\ IdleMerge
    /\ IdleStores
    /\ IdleLimiter
    /\ IdleKeys
    /\ IdleAsr
    /\ IdleChunking

NextJob == WorkerStart \/ WorkerFinish \/ Collect \/ Interrupt \/ Assemble \/ CallMerge

SpecJob == InitJob /\ [][NextJob]_vars

\* the store files a previous run may have left: none, an unparseable one,
\* an empty object, one alias
AliasFiles ==
    { NoFile,
      FileOf(<<"{", "\"", "a">>),
      FileOf(JsonDump(JObj(<<>>))),
      FileOf(JsonDump(JObj(<< <<Lower(<<"A", "O", "T">>), JStr(KBANK_BK)>> >>))) }

InitAlias ==
    /\ comp = "alias"
    /\ store_file \in AliasFiles
    /\ loaded = ReadStore(store_file)
    /\ \E n \in 1..MaxThreads : savers = [t \in 1..n |-> IdleSaver]
    /\ written = <<>>
    /\ now = 0
    /\ mlast = NoStoreCall
    /\ IdleDedup
    /\ IdleResolver
    /\ IdleMerge
    /\ IdleJob
    /\ IdleLimiter
    /\ IdleKeys
    /\ IdleAsr
    /\ IdleChunking

\* none, an unparseable one, an empty object, an entry of the instant 0, an
\* entry that has no timestamp
MarketFiles ==
    { NoFile,
      FileOf(<<"{", "\"", "a">>),
      FileOf(JsonDump(JObj(<<>>))),
      SaveStore(<< <<generate_key(<<"A", "O", "T">>, MarketDate), Entry(Quote(105, 100, 110), 0)>> >>),
      SaveStore(<< <<generate_key(<<"A", "O", "T">>, MarketDate),
                     JObj(<< <<K_DATA, Quote(105, 100, 110)>> >>)>> >>) }

InitMarket ==
    /\ comp = "market"
    /\ store_file \in MarketFiles
    /\ loaded = ReadStore(store_file)
    /\ savers = <<>>
    /\ written = <<>>
    /\ now = 0
    /\ mlast = NoStoreCall
    /\ IdleDedup
    /\ IdleResolver
    /\ IdleMerge
    /\ IdleJob
    /\ IdleLimiter
    /\ IdleKeys
    /\ IdleAsr
    /\ IdleChunking

InitStores == InitAlias \/ InitMarket

NextStores ==
    \/ SaveCacheLoad \/ SaveCacheOpen \/ SaveCacheStore \/ NewAliasInstance
    \/ Tick \/ MarketGet \/ MarketSet \/ NewMarketInstance
    \/ ValidatorLookup \/ ValidateAgainstMarket

SpecStores == InitStores /\ [][NextStores]_vars


InitLimiter ==
    /\ comp = "llm"
    /\ \E n \in 1..MaxLlmChunks : chunks = [i \in 1..n |-> InputChunk(i)]
    /\ processed_parts = <<>>
    /\ \E budget \in 0..MaxBudget : rate_limiter = [request_count |-> 0, max_requests |-> budget]
    /\ lpos = [NoPosition EXCEPT !.pc = "check"]
    /\ llog = <<>>
    /\ max_retries \in {MAX_RETRIES} \cup (1..MaxRetries)
    /\ \E n \in 1..MaxKeys : key_rotation = FreshKeys(n)
    /\ klog = NoKeyLog
    /\ chain = create_llm(key_rotation)
    /\ correction_chain = chain
    /\ ilog = NoInvoke
    /\ IdleDedup
    /\ IdleResolver
    /\ IdleMerge
    /\ IdleJob
    /\ IdleStores
    /\ IdleAsr
    /\ IdleChunking

NextLimiter ==
    SkipChunk \/ EnterRetries \/ InvokeSucceeds \/ InvokeFails \/ InvokeRotates \/ ReturnJoined

SpecLimiter == InitLimiter /\ [][NextLimiter]_vars

\* one of the two scripts with an external-lookup stage, its resolver
\* constructed over the knowledge base and the cache file
InitExternal ==
    /\ comp = "external"
    /\ fuzzy_corpus = LoadKB(MASTER_KB)
    /\ process = FALSE
    /\ cache_file \in CacheFiles
    /\ memory = NewMemory(fuzzy_corpus, cache_file)
    /\ added = {}
    /\ rs = NoCall
    /\ cx = NoContextCall
    /\ fx = NoFix
    /\ \E variant \in {"lang", "test"}, yf \in BOOLEAN :
          xr = [NoExternalCall EXCEPT !.variant = variant, !.yf = yf]
    /\ IdleDedup
    /\ IdleMerge
    /\ IdleServices

NextExternal == ResolveLang \/ ResolveTest

SpecExternal == InitExternal /\ [][NextExternal]_vars

\* main, from the adaptive configuration to the end of the chunking loop
InitChunking ==
    /\ comp = "chunking"
    /\ \E duration_sec \in AudioDurations : ck = Chunking(duration_sec)
    /\ IdleDedup
    /\ IdleResolver
    /\ IdleMerge
    /\ IdleJob
    /\ IdleStores
    /\ IdleLimiter
    /\ IdleKeys
    /\ IdleAsr

NextChunking == ExportChunk \/ ChunkingDone

SpecChunking == InitChunking /\ [][NextChunking]_vars

\* fix_context_blindness(text) on a resolver with a stock context
InitFix ==
    /\ comp = "fix"
    /\ fuzzy_corpus \in {LoadKB(MASTER_KB), EmptyDict}
    /\ process \in BOOLEAN
    /\ cache_file \in CacheFiles
    /\ memory = NewMemory(fuzzy_corpus, cache_file)
    /\ added = {}
    /\ rs = Constructed
    /\ cx = NoContextCall
    /\ xr = NoExternalCall
    /\ \E txt \in FixTexts : fx = [NoFix EXCEPT !.pc = "loop", !.text = txt, !.fixed_text = txt]
    /\ IdleDedup
    /\ IdleMerge
    /\ IdleServices

NextFix == FixMatch \/ FixReturn

SpecFix == InitFix /\ [][NextFix]_vars

\* the key_rotation module on its own: any sequence of rotate_key and
\* reset_rotation calls
InitKeys ==
    /\ comp = "keys"
    /\ \E n \in 0..MaxKeys : key_rotation = FreshKeys(n)
    /\ klog = NoKeyLog
    /\ IdleDedup
    /\ IdleResolver
    /\ IdleMerge
    /\ IdleJob
    /\ IdleStores
    /\ IdleLimiter
    /\ IdleAsr
    /\ IdleChunking

NextKeys == RotateKey \/ ResetRotation

SpecKeys == InitKeys /\ [][NextKeys]_vars

\* one transcribe_chunk call
InitAsr ==
    /\ comp = "asr"
    /\ asr = [NoTranscription EXCEPT !.pc = "create"]
    /\ IdleDedup
    /\ IdleResolver
    /\ IdleMerge
    /\ IdleJob
    /\ IdleStores
    /\ IdleLimiter
    /\ IdleKeys
    /\ IdleChunking

NextAsr == TranscribeReturns \/ TranscribeRaises

\* the two retry loops, each step of which is a call that returns or fails in
\* finite time followed by a bounded sleep: a step that can be taken is taken
InitRetry == InitLimiter \/ InitAsr

NextRetry == NextLimiter \/ NextAsr

SpecRetry == InitRetry /\ [][NextRetry]_vars /\ WF_vars(NextRetry)


----------------------------------------------------------------------------
(* Claims.                                                                 *)

\* the fraction of words the computed removal takes away exceeds the ceiling
ExceedsCeiling ==
    (WordCount(text) - WordCount(dd.cleaned)) * 100 > max_removal_percent * WordCount(text)

\* C1: safe_deduplicate returns the input exactly, with applied = False,
\* when the computed removal takes more than the ceiling f of the words, and
\* returns the deduplicated text, with applied = True, when it takes at most f.
C1_SafeDedupCeiling ==
    dd.op = "safe_deduplicate" =>
        /\ ExceedsCeiling => (dd.out = text /\ ~dd.applied)
        /\ ~ExceedsCeiling => (dd.out = dd.cleaned /\ dd.applied)

\* C1 witness: a removal above the ceiling was computed and the input came back
C1_Witness ==
    /\ dd.op = "safe_deduplicate"
    /\ ExceedsCeiling
    /\ dd.cleaned # text
    /\ dd.out = text

\* the share of lines (marker mode) or sentences (boundary mode) removed
\* exceeds the ceiling
ExceedsUnitCeiling ==
    LET units == IF dd.op = "remove_duplicates"
                 THEN Len(Split(text, NL))
                 ELSE Len(split_sentences_smart(text))
    IN dd.removed * 100 > max_removal_percent * units

\* C2: in marker-based and in boundary dedup, a removal above the ceiling
\* aborts the operation and returns the original text unchanged.
C2_CeilingBothModes ==
    (dd.op \in {"remove_duplicates", "remove_chunk_boundary_duplicates"}
        /\ ExceedsUnitCeiling)
    => dd.out = text

\* the clean tickers of the knowledge base
StockTickers == {RemoveAll(e[2], DotBK) : e \in MASTER_KB}

\* C3: when the context window contains a fund indicator of the resolver's
\* list, the mention is classified fund and its resolved value is not a stock
\* ticker, also when a stock indicator is in the same window.
C3_FundIndicatorWins ==
    (cx.type # "idle" /\ Search(fund_indicators, cx.context))
    => (cx.type = "fund" /\ cx.resolved \notin StockTickers)

\* the mention, exactly as the caller passed it, is made of Latin letters only
PureLatin(mention) ==
    /\ mention # <<>>
    /\ \A i \in 1..Len(mention) : IsUpperLetter(mention[i]) \/ IsLowerLetter(mention[i])

\* the call had no exact match and extractOne returned a candidate
ReachedFuzzy(call) == call.fuzzy_ran /\ call.best_match # NONE

\* C4: when the best fuzzy candidate's ticker, without ".BK", has at most 3
\* characters and its score is below 100, resolve returns None and writes
\* nothing to the alias cache, neither to the file nor to the memory index.
C4_ShortTickerNeedsPerfect ==
    [][(/\ rs' # rs
        /\ ReachedFuzzy(rs')
        /\ Len(rs'.ticker_clean) <= 3
        /\ rs'.score < 100)
       => (/\ rs'.ret = NONE
           /\ cache_file' = cache_file
           /\ memory' = memory)]_vars

\* C4 witness: a short ticker was the best candidate with a score of 97 and
\* the call returned None
C4_Witness ==
    /\ ReachedFuzzy(rs)
    /\ Len(rs.ticker_clean) <= 3
    /\ rs.score = 97
    /\ rs.ret = NONE

\* C5: a mention made of Latin letters only and without exact match is
\* unresolved whenever the best score is below 95; an acceptance between 90
\* and 95 only happens for a mention that is not pure Latin script.
C5_LatinNeeds95 ==
    /\ (ReachedFuzzy(rs) /\ PureLatin(rs.mention) /\ rs.score < 95)
           => (rs.ret = NONE /\ rs.outcome = "none")
    /\ (rs.outcome = "fuzzy" /\ rs.score < 95) => ~PureLatin(rs.mention)

\* C5 witness: a pure-Latin mention scored 92 against a long ticker and was
\* left unresolved
C5_Witness ==
    /\ ReachedFuzzy(rs)
    /\ PureLatin(rs.mention)
    /\ rs.score = 92
    /\ Len(rs.ticker_clean) > 3
    /\ rs.ret = NONE

\* the score passes the floor and both safety gates for this mention and ticker
PassesGates(mention, ticker_clean, score) ==
    /\ score >= 90
    /\ ~(Len(ticker_clean) <= 3 /\ score < 100)
    /\ ~(PureLatin(mention) /\ score < 95)

\* C6: resolve changes the alias cache only by adding the accepted mapping of
\* a fuzzy match whose score is at least 90 and passes both gates; a call that
\* fails a gate or the floor returns None and leaves file and memory unchanged.
C6_PersistOnlyAboveFloor ==
    [][/\ (cache_file' # cache_file \/ (rs' # Constructed /\ memory' # memory))
          => (/\ rs'.outcome = "fuzzy"
              /\ PassesGates(rs'.mention, rs'.ticker_clean, rs'.score)
              /\ cache_file'.kind = "json"
              /\ rs'.key \in DOMAIN cache_file'.data
              /\ cache_file'.data[rs'.key] = rs'.ret
              /\ memory' = Put(memory, rs'.key, rs'.ret)
              /\ \A k \in DOMAIN cache_file'.data \ {rs'.key} :
                    /\ cache_file.kind = "json"
                    /\ k \in DOMAIN cache_file.data
                    /\ cache_file'.data[k] = cache_file.data[k])
       /\ (/\ rs' # rs
           /\ ReachedFuzzy(rs')
           /\ ~PassesGates(rs'.mention, rs'.ticker_clean, rs'.score))
          => (/\ rs'.ret = NONE
              /\ cache_file' = cache_file
              /\ memory' = memory)]_vars

\* C6 witness: an entry accepted at score 92 is in the cache file and in memory
C6_Witness ==
    \E e \in added :
        /\ e.score = 92
        /\ cache_file.kind = "json"
        /\ e.key \in DOMAIN cache_file.data
        /\ e.key \in DOMAIN memory

\* C7: once resolve(m) has persisted ticker T through the fuzzy stage, a
\* later resolve(m), by the same resolver or by one constructed afterwards
\* from the same cache file, returns T from the exact lookup and the fuzzy
\* stage does not run.
C7_PersistedThenExact ==
    rs.prior # NONE =>
        /\ rs.outcome = "exact"
        /\ rs.ret = rs.prior
        /\ ~rs.fuzzy_ran

\* C7 witness: a mention persisted earlier is resolved again by a resolver
\* constructed afterwards
C7_Witness ==
    /\ rs.prior # NONE
    /\ rs.fresh
    /\ rs.outcome = "exact"

\* the chunk pairs of the restatement case: A ends with the sentence S, and
\* B is S followed by the new sentence N, on two lines or on a single line
RestatedCase(A, B, S, N) ==
    /\ S # N
    /\ A \in {S, S_SET \o <<NL>> \o S, S_SET \o <<SP>> \o S}
    /\ B \in {S \o <<NL>> \o N, S \o <<SP>> \o N}

\* C8: when B restates the last sentence of A as its first sentence and then
\* continues with a new sentence, merge([A, B]) contains the restated sentence
\* exactly once and the new sentence exactly once, for every layout of the
\* chunks into lines.
C8_RestatedExactlyOnce ==
    (mpc = "done" /\ Len(transcripts) = 2) =>
        \A S \in {S_AOT}, N \in {S_KBANK} :
            RestatedCase(transcripts[1], transcripts[2], S, N)
            => (Occurrences(full_text, S) = 1 /\ Occurrences(full_text, N) = 1)

\* the boundary sentences and the new sentences the merger compares when it
\* adds the chunk to the accumulated text
AnchorsOf(full) == BoundarySentences(split_sentences_smart(TailWindow(full)))

NewSentencesOf(chunk) == split_sentences_smart(HeadWindow(Strip(chunk)))

\* no pair of a boundary sentence and a new sentence is above the threshold
NoPairAbove(full, chunk) ==
    \A a \in Range(AnchorsOf(full)), b \in Range(NewSentencesOf(chunk)) :
        ~RatioGT(Ratio(a, b), Pct(70))

\* the best-matching new sentence is the last one of the leading window
BestIsLast(full, chunk) ==
    /\ NewSentencesOf(chunk) # <<>>
    /\ BestMatch(AnchorsOf(full), NewSentencesOf(chunk))[2] = Len(NewSentencesOf(chunk))

\* C9: when no pair is above the merge threshold, or the best-matching new
\* sentence is the last of the leading window, the whole chunk is appended: the
\* step yields accumulated + " " + chunk up to whitespace normalization, and
\* merge([A, B]) = normalize(A + " " + B) for such A, B.
C9_FallbackAppendsWhole ==
    /\ [][(/\ mpc = "loop"
           /\ chunk_index' = chunk_index + 1
           /\ \/ NoPairAbove(full_text, transcripts[chunk_index + 1])
              \/ BestIsLast(full_text, transcripts[chunk_index + 1]))
          => Normalize(full_text')
               = Normalize(full_text \o <<SP>> \o transcripts[chunk_index + 1])]_vars
    /\ [](( /\ mpc = "done"
            /\ Len(transcripts) = 2
            /\ \/ NoPairAbove(Strip(transcripts[1]), transcripts[2])
               \/ BestIsLast(Strip(transcripts[1]), transcripts[2]))
          => full_text = Normalize(transcripts[1] \o <<SP>> \o transcripts[2]))

\* C9 witness: a merge of two chunks finished after the best match was found
\* on the last new sentence and the chunk was appended whole
C9_Witness ==
    /\ mpc = "done"
    /\ Len(transcripts) = 2
    /\ Len(mlog) = 1
    /\ mlog[1].branch = "append"
    /\ mlog[1].best # 0
    /\ mlog[1].best = mlog[1].n
    /\ full_text = Normalize(transcripts[1] \o <<SP>> \o transcripts[2])

\* C10: every sentence of a new chunk that is not a restatement (similarity
\* above the threshold) of one of the last 3 accumulated sentences is in the
\* merged text after the chunk has been added.
C10_NoNewSentenceDropped ==
    [][(mpc = "loop" /\ chunk_index' = chunk_index + 1)
       => \A b \in Range(NewSentencesOf(transcripts[chunk_index + 1])) :
             (\A a \in Range(AnchorsOf(full_text)) : ~RatioGT(Ratio(a, b), Pct(70)))
             => Contains(full_text', b)]_vars

\* C11: merge_transcriptions is invoked at most once per job, only when every
\* chunk task has completed with a text or a failure, and its argument lists
\* the chunk results in ascending chunk index whatever the completion order.
C11_MergeIsJoinPoint ==
    /\ merge_calls <= 1
    /\ (comp = "job" /\ merge_calls = 1) =>
          /\ \A i \in DOMAIN futures : futures[i].state = "finished"
          /\ Len(transcripts) = Cardinality(DOMAIN futures)
          /\ \A k \in 1..Len(transcripts) :
                transcripts[k] = TextOrMarker(ResultOf(k - 1, futures[k - 1].outcome))

\* C11 witness: the merge was invoked after the workers finished out of index
\* order and one chunk failed
C11_Witness ==
    /\ comp = "job"
    /\ merge_calls = 1
    /\ InsertionOrder(results) # SortedKeys(results)
    /\ \E i \in DOMAIN futures : futures[i].outcome = "raised"
    /\ \E i \in DOMAIN futures : futures[i].outcome = "text"

\* C12: writes to the persisted stores lose no update: once the threads that
\* called save_cache have all returned, the alias cache file is parseable and
\* holds every key a completed save_cache persisted.
C12_NoLostUpdate ==
    (comp = "alias" /\ written # <<>> /\ \A t \in DOMAIN savers : savers[t].pc = "idle") =>
        /\ ~Unparseable(store_file)
        /\ \A i \in DOMAIN written : written[i][1] \in OKeys(ReadStore(store_file))

\* C13: an unparseable store file is fatal: while it is unparseable (and no
\* writer of this process is in the middle of rewriting it) no step constructs
\* an instance over it and no step truncates or rewrites it.
C13_UnparseableStoreIsFatal ==
    [][(Unparseable(store_file) /\ \A t \in DOMAIN savers : savers[t].pc # "open")
          => (store_file' = store_file /\ mlast'.op # "new")]_vars

\* C14: with an empty index (knowledge base absent or malformed) resolve never
\* raises: every call ends with a ticker or with None.
C14_EmptyIndexNeverRaises ==
    fuzzy_corpus = EmptyDict => rs.outcome # "raise"

\* C15: with a day range {low, high, close} cached for (ticker, date) and not
\* expired, validate_against_market answers plausible True / high for a price
\* inside [low, high], else plausible True / medium for a price that deviates
\* from the close by less than the tolerance, else plausible False.
C15_PriceClassification ==
    (/\ mlast.op = "validate"
     /\ mlast.before # JNone
     /\ ~is_expired(mlast.before, mlast.at)
     /\ OGet(mlast.before.items, K_DATA) = DayRange(100, 110, 105)) =>
        /\ mlast.price = 105 => (mlast.plausible = "True" /\ mlast.confidence = "high")
        /\ mlast.price = 120 => (mlast.plausible = "True" /\ mlast.confidence = "medium")
        /\ mlast.price = 200 => mlast.plausible = "False"

\* the age, at the instant of the last call, of the entry the call found
AgeBefore == mlast.at - FromIsoFormat(OGet(mlast.before.items, K_TIMESTAMP).s)

HadTimestamp == mlast.before # JNone /\ K_TIMESTAMP \in OKeys(mlast.before.items)

\* C16: get never returns the data of an entry older than the TTL or without a
\* timestamp (it answers None), and returns the stored data of an entry
\* younger than the TTL.
C16_GetRespectsTTL ==
    (mlast.op = "get" /\ mlast.before # JNone) =>
        /\ (~HadTimestamp \/ AgeBefore > ttl_hours * 3600) => mlast.ret = JNone
        /\ (HadTimestamp /\ AgeBefore < ttl_hours * 3600) =>
              mlast.ret = OGet(mlast.before.items, K_DATA)

\* C16 witness: get was called on an entry older than the TTL and answered None.
C16_Witness ==
    /\ mlast.op = "get"
    /\ HadTimestamp
    /\ AgeBefore > ttl_hours * 3600
    /\ mlast.ret = JNone

\* C17: the market validator consults the cache first: an entry younger than
\* the TTL is used without a live call; with no entry, or one older than the
\* TTL or without a timestamp, the provider is called, and data it returns is
\* written back to the cache and the file, so that a lookup of the same key
\* less than a TTL later is served from the cache with no live call.
C17_CacheBeforeLive ==
    /\ [](mlast.op = "lookup" =>
            /\ (HadTimestamp /\ AgeBefore < ttl_hours * 3600) =>
                  (~mlast.live /\ mlast.ret = OGet(mlast.before.items, K_DATA))
            /\ (~HadTimestamp \/ AgeBefore > ttl_hours * 3600) => mlast.live
            /\ (mlast.live /\ mlast.ret # JNone) =>
                  /\ EntryOf(loaded, mlast.key) = Entry(mlast.ret, mlast.at)
                  /\ ReadStore(store_file) = loaded)
    /\ [][(/\ mlast.op = "lookup" /\ mlast.live /\ mlast.ret # JNone
           /\ mlast'.op = "lookup" /\ mlast'.key = mlast.key
           /\ mlast' # mlast
           /\ mlast'.at - mlast.at < ttl_hours * 3600)
             => (~mlast'.live /\ mlast'.ret = mlast.ret)]_vars

\* C17 witness: a lookup was served from the cache, without a live call, from
\* an entry written earlier.
C17_Witness ==
    /\ mlast.op = "lookup"
    /\ ~mlast.live
    /\ HadTimestamp
    /\ AgeBefore > 0
    /\ mlast.ret \in ProviderData

\* C18: round trip: a fresh instance constructed over the storage (the steps
\* that end with the last call being "new" and leave file, threads and clock
\* alone) holds exactly the entries, with the same values, that the instance
\* which persisted them held (one thread persisting; distinct keys).
C18_RoundTrip ==
    [][(/\ mlast'.op = "new"
        /\ UNCHANGED <<store_file, savers, written, now>>
        /\ Cardinality(DOMAIN savers) <= 1)
          => loaded' = loaded]_vars

\* C18 witness: a fresh alias instance was constructed after three save_cache
\* calls over two distinct keys, one of which needs escaping in the file.
C18_Witness ==
    /\ comp = "alias"
    /\ mlast.op = "new"
    /\ Cardinality(DOMAIN savers) = 1
    /\ Len(written) = 3
    /\ OKeys(loaded) = {Lower(m) : m \in AliasMentions}
    /\ ReadStore(store_file) = loaded

\* the ticker the last completed save_cache wrote for key k
LastWritten(k) ==
    written[CHOOSE i \in DOMAIN written :
               /\ written[i][1] = k
               /\ \A j \in DOMAIN written : written[j][1] = k => j <= i][2]

\* C19: with one thread calling save_cache, between the calls the alias cache
\* file holds every alias persisted so far (those the instance loaded and those
\* it wrote), each with one ticker, the one written last.
C19_AliasCacheMonotone ==
    (/\ comp = "alias"
     /\ Cardinality(DOMAIN savers) = 1
     /\ written # <<>>
     /\ \A t \in DOMAIN savers : savers[t].pc = "idle") =>
        /\ JsonLoad(store_file.content).ok
        /\ \E store \in {JsonLoad(store_file.content).v.items} :
              /\ OKeys(loaded) \subseteq OKeys(store)
              /\ \A i \in DOMAIN written :
                    /\ written[i][1] \in OKeys(store)
                    /\ OGet(store, written[i][1]) = JStr(LastWritten(written[i][1]))
              /\ \A i, j \in DOMAIN store : store[i][1] = store[j][1] => i = j

\* C19 witness: three save_cache calls have completed, two of them on the same
\* alias with different tickers.
C19_Witness ==
    /\ comp = "alias"
    /\ Cardinality(DOMAIN savers) = 1
    /\ savers[1].pc = "idle"
    /\ Len(written) = 3
    /\ Len(ReadStore(store_file)) = 2
    /\ \E i, j \in DOMAIN written :
          i < j /\ written[i][1] = written[j][1] /\ written[i][2] # written[j][2]

\* C20: with a rate limiter, a chunk that meets an exhausted budget is passed
\* through with its original text and without an LLM call, and so is every
\* chunk after it; the parts are one per chunk, in chunk order, each the LLM
\* output for the chunk or the chunk's original text.
C20_BudgetSkipsKeepText ==
    comp = "llm" =>
        /\ Len(processed_parts) = Len(llog)
        /\ Len(processed_parts) <= Len(chunks)
        /\ lpos.pc = "returned" => Len(processed_parts) = Len(chunks)
        /\ \A i \in DOMAIN processed_parts :
              /\ processed_parts[i] \in {chunks[i], LlmOutput(i)}
              /\ llog[i].start >= rate_limiter.max_requests =>
                    /\ llog[i].calls = 0
                    /\ \A j \in DOMAIN processed_parts :
                          j >= i => (processed_parts[j] = chunks[j] /\ llog[j].calls = 0)

\* C20 witness: the function has returned; a chunk went through the LLM and a
\* later chunk met the exhausted budget and kept its text.
C20_Witness ==
    /\ comp = "llm"
    /\ lpos.pc = "returned"
    /\ \E i, j \in DOMAIN llog :
          /\ i < j
          /\ llog[i].how = "llm"
          /\ llog[j].how = "skipped"
          /\ processed_parts[j] = chunks[j]

\* the retry loops are done: the function has returned
RetryDone ==
    /\ comp = "asr" => asr.pc = "returned"
    /\ comp = "llm" => lpos.pc = "returned"

\* transcribe_chunk calls the API at most five times and returns the text of
\* the call that came back, or "" once five calls have raised
AsrCapped ==
    comp = "asr" =>
        /\ asr.calls <= ASR_ATTEMPTS
        /\ asr.pc \in {"create", "returned"}
        /\ asr.pc = "returned" =>
              \/ asr.text = ChunkText(1)
              \/ asr.text = <<>> /\ asr.calls = ASR_ATTEMPTS

\* process_large_text_robust: no chunk gets more than max_retries attempts,
\* rotations included, and a chunk whose attempts all failed keeps its text
LlmCapped ==
    comp = "llm" =>
        /\ lpos.pc = "retry" =>
              /\ lpos.attempt < max_retries
              /\ rate_limiter.request_count - lpos.start = lpos.attempt
        /\ \A i \in DOMAIN llog :
              /\ llog[i].calls <= max_retries
              /\ llog[i].how = "failed" =>
                    /\ llog[i].calls = max_retries
                    /\ processed_parts[i] = chunks[i]

Marked(line) == \E p \in 1..(Len(line) - 4) : SubSeq(line, p, p + 4) = DUP

\* the lines of the text that are not marked, in their order
UnmarkedLines(t) ==
    LET lines == Split(t, NL)
        kept == {i \in DOMAIN lines : ~Marked(lines[i])}
    IN [k \in 1..Cardinality(kept) |->
           lines[CHOOSE i \in kept : Cardinality({j \in kept : j < i}) = k - 1]]

\* C22: remove_duplicates removes every line containing the exact,
\* case-sensitive token [DUP] and no other line (a line with only a near-miss
\* such as [dup] is kept), keeps the remaining lines in their order, and
\* returns the number of lines removed.
C22_MarkerDedupExact ==
    dd.op = "remove_duplicates" =>
        /\ dd.out = Join(UnmarkedLines(text), <<NL>>)
        /\ dd.removed = Len(Split(text, NL)) - Len(UnmarkedLines(text))

\* C22 witness: a text with a line marked in its middle, a near-miss line and
\* a plain line went through remove_duplicates; one line was removed.
C22_Witness ==
    /\ dd.op = "remove_duplicates"
    /\ text = Join(<< <<"a", " ", "b">>, <<"c", "[", "D", "U", "P", "]">>,
                      <<"[", "d", "u", "p", "]", "c">> >>, <<NL>>)
    /\ dd.removed = 1
    /\ dd.out = Join(<< <<"a", " ", "b">>, <<"[", "d", "u", "p", "]", "c">> >>, <<NL>>)

\* thread t executes the load of save_cache in this step
ReadsStore(t) == savers[t].pc = "idle" /\ savers'[t].pc = "loaded"

\* C23: a half-written cache update is never observed: a thread that reads
\* the persisted store while another thread is inside its write finds a
\* complete store (the one before the write or the one after it), never a
\* truncated or partial file.
C23_NoHalfWrittenRead ==
    [][\A t \in DOMAIN savers :
          (comp = "alias" /\ ReadsStore(t) /\ \E u \in DOMAIN savers : savers[u].pc = "open")
             => /\ ~Unparseable(store_file)
                /\ \E u \in DOMAIN savers :
                      /\ savers[u].pc = "open"
                      /\ savers'[t].new_data \in
                            {savers[u].new_data, ODel(savers[u].new_data, Lower(savers[u].mention))}]_vars

\* C24: in the resolver variants with an external-lookup stage, a ticker that
\* comes from the external search is returned and written to the alias cache
\* only after verify_ticker has succeeded for it; when no candidate is found
\* or the verification fails, resolve returns None and persists nothing.
C24_VerifiedBeforeAccepted ==
    (comp = "external" /\ xr.stage = "search") =>
        /\ xr.ret # NONE =>
              /\ xr.yf /\ xr.ret \in xr.listed
              /\ xr.found # NONE
              /\ xr.ret \in {UpperStr(xr.found), UpperStr(xr.found) \o DotBK}
              /\ xr.saved
              /\ cache_file.kind = "json"
              /\ Strip(Lower(xr.mention)) \in DOMAIN cache_file.data
              /\ cache_file.data[Strip(Lower(xr.mention))] = xr.ret
        /\ (xr.found = NONE \/ ~xr.yf
               \/ xr.listed \cap {UpperStr(xr.found), UpperStr(xr.found) \o DotBK} = {}) =>
              /\ xr.ret = NONE
              /\ ~xr.saved
              /\ cache_file = xr.file_before
              /\ memory = xr.memory_before
        /\ xr.saved => xr.ret # NONE

\* C24 witness: the search returned a bare candidate, the existence check
\* succeeded for the candidate with the market suffix, and that ticker was
\* persisted and returned.
C24_Witness ==
    /\ comp = "external"
    /\ xr.stage = "search"
    /\ xr.found = PTT
    /\ xr.ret = PTT_BK
    /\ PTT_BK \in xr.listed
    /\ xr.saved
    /\ cache_file.kind = "json"
    /\ cache_file.data[<<"p", "t", "t">>] = PTT_BK

\* C25: for every audio length and every tier of the adaptive configuration,
\* each chunk the chunking loop produces, the last one included, is at least
\* as long as the overlap (OVERLAP_DURATION).
C25_OverlapWithinChunk ==
    comp = "chunking" =>
        \A i \in DOMAIN ck.chunks :
            ck.adaptive_cfg.OVERLAP_DURATION * 1000 <= ck.chunks[i].end - ck.chunks[i].start

\* the mention of this log entry could not be resolved with confidence: typed
\* unknown, typed stock with the resolver returning None (confidence 0.5), or
\* typed index without a matching finance term (confidence 0.7)
NotResolved(e) ==
    \/ e.type = "unknown"
    \/ e.type = "stock" /\ e.confidence = 5
    \/ e.type = "index" /\ e.confidence = 7

\* the number of fixes recorded once the k-th processed mention was handled
FixesAfter(k) == IF k < Len(fx.log) THEN fx.log[k + 1].fixes_before ELSE Len(fx.fixes)

\* how far the fixes applied so far have moved the text at position pos
RECURSIVE ShiftBefore(_, _)
ShiftBefore(pos, k) ==
    IF k = 0 THEN 0
    ELSE ShiftBefore(pos, k - 1)
         + (IF fx.log[k].start < pos /\ FixesAfter(k) > fx.log[k].fixes_before
            THEN Len(fx.log[k].resolved) - Len(fx.log[k].entity) ELSE 0)

\* C26: a mention that cannot be resolved with confidence (unknown; stock for
\* which the resolver returns None; index without a matching term) keeps its
\* text in the output of fix_context_blindness, and no fix is recorded for it.
C26_UnresolvedLeftAlone ==
    comp = "fix" =>
        \A k \in DOMAIN fx.log :
            NotResolved(fx.log[k]) =>
                /\ FixesAfter(k) = fx.log[k].fixes_before
                /\ fx.log[k].resolved = fx.log[k].entity
                /\ With(fx.log[k].start + ShiftBefore(fx.log[k].start, Len(fx.log)), LAMBDA at :
                      SubSeq(fx.fixed_text, at, at + Len(fx.log[k].entity) - 1) = fx.log[k].entity)

\* C26 witness: fix_context_blindness has returned; a stock mention the
\* resolver could not resolve kept its text although a mention to its left was
\* rewritten to a shorter ticker.
C26_Witness ==
    /\ comp = "fix"
    /\ fx.pc = "done"
    /\ Len(fx.fixes) = 1
    /\ Len(fx.fixed_text) < Len(fx.text)
    /\ \E k \in DOMAIN fx.log :
          /\ NotResolved(fx.log[k])
          /\ fx.log[k].type = "stock"
          /\ ShiftBefore(fx.log[k].start, Len(fx.log)) < 0

\* the indices of the sentences remove_chunk_boundary_duplicates joins into its
\* output
BoundaryKept(sentences, thr) ==
    Range(BoundaryLoop(sentences, thr, 1,
                       [skip_indices |-> {}, removed_count |-> 0, cleaned |-> <<>>]).cleaned)

\* sentence k is a retained near-identical version of sentence i: within the
\* look-ahead distance, similar at the threshold, and of no lower quality
RetainedTwin(sentences, thr, kept, i, k) ==
    /\ k \in kept
    /\ k - i <= look_ahead
    /\ i - k <= look_ahead
    /\ RatioGE(calculate_sentence_similarity(sentences[i], sentences[k]), thr)
    /\ score_sentence_quality(sentences[k]) >= score_sentence_quality(sentences[i])

\* C27: every sentence remove_chunk_boundary_duplicates removes has a sentence
\* near-identical to it (similarity >= threshold, at most 5 positions away)
\* among the sentences of the output, and that one has the higher or equal
\* quality score.
C27_RemovedHasRetainedTwin ==
    comp = "dedup" /\ dd.op = "remove_chunk_boundary_duplicates" =>
        With(split_sentences_smart(text), LAMBDA sentences :
        With(BoundaryKept(sentences, similarity_threshold), LAMBDA kept :
            \A i \in (1..Len(sentences)) \ kept :
                \E k \in kept :
                    RetainedTwin(sentences, similarity_threshold, kept, i, k)))

\* C28: in a run of process_large_text_robust with a rate limiter, for any
\* MAX_RETRIES and any pattern of failures, the number of recorded requests
\* (request_count) never exceeds the budget max_requests.
C28_BudgetNeverExceeded ==
    comp = "llm" => rate_limiter.request_count <= rate_limiter.max_requests

\* the keys selected by the first j rotate_key calls of the log
KeysSelected(j) == {klog.since[i].key : i \in 1..j}

\* C29: with N >= 2 keys, counted from a reset or from the state an exhaustion
\* left, the first N-1 rotate_key calls return True and each selects a key that
\* has not been current since that point, and the N-th call returns False and
\* clears the tried set; with N <= 1 every call returns False and the current
\* key stays what it was.
C29_RotationRound ==
    comp = "keys" =>
        With(Len(key_rotation.GEMINI_API_KEYS), LAMBDA N :
            IF N >= 2
            THEN /\ Len(klog.since) <= N
                 /\ \A j \in DOMAIN klog.since :
                       IF j < N
                       THEN /\ klog.since[j].ret
                            /\ klog.since[j].key # klog.start
                            /\ klog.since[j].key \notin KeysSelected(j - 1)
                       ELSE /\ ~klog.since[j].ret
                            /\ klog.since[j].tried = {}
                 /\ (Exhausted(klog) => key_rotation.keys_tried_this_session = {})
            ELSE /\ \A j \in DOMAIN klog.since :
                       /\ ~klog.since[j].ret
                       /\ klog.since[j].key = get_current_key(FreshKeys(N))
                 /\ key_rotation = FreshKeys(N))

\* C29 witness: with three or more keys a round of N rotate_key calls has
\* ended with False, after at least N earlier calls of rotate_key or
\* reset_rotation.
C29_Witness ==
    /\ comp = "keys"
    /\ Len(key_rotation.GEMINI_API_KEYS) >= 3
    /\ Len(klog.since) = Len(key_rotation.GEMINI_API_KEYS)
    /\ Exhausted(klog)
    /\ klog.calls >= 2 * Len(key_rotation.GEMINI_API_KEYS)

====
